---- MODULE Spec2Model ----
(***************************************************************************)
(* A model of the llm-terminal repository: the tool-call orchestration     *)
(* loop of gemini_terminal (GeminiClient.generate_mcp_content), the agent  *)
(* worker and prompt queue of llm_terminal, and the configuration stores   *)
(* of the three application variants.                                      *)
(*                                                                         *)
(* Strings the code only passes along are abstracted to small value sets;  *)
(* a model text is kept as "is it non-empty" (the code only tests it with  *)
(* `or`).                                                                  *)
(***************************************************************************)
EXTENDS Integers, Sequences, FiniteSets, TLC

(***************************************************************************)
(* Bounds of the model.                                                    *)
(***************************************************************************)
\* the longest list of function calls one model turn requests
MaxCalls == 2
\* the largest number of connected tool sessions handed to the loop
MaxSessions == 2
\* the longest server list of a configuration
MaxServers == 1
\* the number of prompts submitted in one run of an application
MaxPrompts == 2
\* the number of agent workers started in one run (restarts + 1)
MaxWorkers == 2
\* the number of new-conversation presses in one run
MaxPresses == 1
\* the number of connection attempts to tool servers in one run (src)
MaxConnects == 2
\* the number of servers in the file a prompt task or a connection starts on
MaxTaskServers == 2
\* the number of runs whose messages an AgentService's history holds
MaxHistory == 2
\* the number of servers in the list a ServerScreen is opened on
MaxScreenServers == 3

(***************************************************************************)
(* Program constants.                                                      *)
(***************************************************************************)
\* gemini_client.py:133  max_tool_turns = 5
max_tool_turns == 5

VARIABLES
    \* ---- gemini_terminal: GeminiClient.generate_mcp_content ----
    client,              \* self.client is set (an API key was configured)
    mcp_sessions,        \* the mcp_sessions argument: list of (tools, behaviour)
    fc_request,          \* the function calls the model asks for in a tool turn
    pc,                  \* position of the coroutine
    contents,            \* the conversation history sent to the model
    response,            \* the last response object assigned
    response_text,       \* [text, notice]: the accumulated display text
    displayed,           \* the last value handed to on_update
    turn_count,
    fc_index,            \* position of the for loop over response.function_calls
    tool_response_parts,
    model_invocations,   \* log: one entry per generate_content call
    tool_calls,          \* log: one entry per session.call_tool call
    \* ---- the configuration stores of the three variants ----
    cfg_variant,         \* which application's store: gemini, llm or src
    cfg_file,            \* the content of the config file
    cfg_pc,              \* off | running | crashed (load raised at start-up)
    cfg_memory,          \* the in-memory configuration of the running app
    cfg_last,            \* the last operation: none | load | edit | save | quit
    cfg_saved,           \* the configuration handed to the last save
    cfg_file_saved,      \* the file is what the last save wrote
    \* ---- the running applications (llm_terminal: TerminalApp) ----
    chat_view,           \* the response widgets mounted in #chat-view
    widgets,             \* what each response widget shows
    prompt_queue,        \* self.prompt_queue
    agent_worker_instance, \* self.agent_worker_instance (0: None)
    mcp_config_file,     \* the file at MCP_CONFIG_PATH: missing or present
    workers,             \* each agent_worker started: Textual state, thread
    submitted,           \* log: number of prompts submitted so far
    prompt_epoch,        \* log: New Chat presses made before each prompt
    new_chat_presses,    \* log: number of new-conversation presses
    \* ---- modal screens (src ToolSettingsDialog, gemini screens) ----
    dialog,              \* the modal screen on top: none | tool_settings | ...
    selected_server,     \* ToolSettingsDialog.selected_server (0: None)
    old_api_key,         \* SettingsScreen.old_api_key
    edit_server,         \* ServerScreen.edit_server: its place in the list (0: None)
    opened_on,           \* log: the server list when the screen was opened
    \* ---- gemini_terminal: GeminiTerminalApp ----
    gemini_client,       \* self.gemini_client (NoClient: None)
    \* ---- gemini_terminal and src: one background task per prompt ----
    tasks,               \* the worker started for each prompt
    vendor_raised,       \* log: prompts whose model call raised
    model_calls,         \* log: number of model calls made for each prompt
    \* ---- src: the tool-server connection of TerminalApp ----
    session,             \* self.session (0: None, k: of the k-th attempt)
    exit_stack,          \* self.exit_stack (0: None, k: of the k-th attempt)
    mcp_tools,           \* self.mcp_tools
    mcp_connected,       \* self.mcp_connected: "False" | "True" | "None"
    stacks,              \* log: what each AsyncExitStack created holds
    connects,            \* the connect_mcp_server workers
    closers,             \* _close_session_in_thread workers not yet run
    toggles,             \* ServerToggle.is_connected of each server's button
    \* ---- llm_terminal: one AgentService object and its caller ----
    agent_service,       \* the attributes of the AgentService
    service_call         \* the method call under way or last returned

loopVars == <<client, mcp_sessions, fc_request, pc, contents, response,
              response_text, displayed, turn_count, fc_index,
              tool_response_parts, model_invocations, tool_calls>>

cfgVars == <<cfg_variant, cfg_file, cfg_pc, cfg_memory, cfg_last, cfg_saved,
             cfg_file_saved>>

appVars == <<chat_view, widgets, prompt_queue, agent_worker_instance,
             mcp_config_file, workers,
             submitted, prompt_epoch, new_chat_presses>>

dlgVars == <<dialog, selected_server, old_api_key, edit_server, opened_on>>

gemVars == <<gemini_client>>

taskVars == <<tasks, vendor_raised, model_calls>>

srcVars == <<session, exit_stack, mcp_tools, mcp_connected, stacks, connects,
             closers, toggles>>

\* the variables of the components added to the applications
svcVars == <<agent_service, service_call>>

extVars == <<dlgVars, gemVars, taskVars, srcVars, svcVars>>

\* everything but the AgentService
restVars == <<loopVars, cfgVars, appVars, dlgVars, gemVars, taskVars, srcVars>>

vars == <<loopVars, cfgVars, appVars, extVars>>

(***************************************************************************)
(* gemini_terminal/gemini_client.py: generate_mcp_content                  *)
(***************************************************************************)
ToolNames == {"a", "b"}

\* What a connected session does with a call_tool: returns a result, returns
\* a result flagged isError, or raises.
Behaviours == {"ok", "isError", "raises"}

Sessions == [tools : SUBSET ToolNames, behaviour : Behaviours]

SessionLists == UNION {[1..n -> Sessions] : n \in 1..MaxSessions}

FunctionCallLists == UNION {[1..n -> ToolNames] : n \in 1..MaxCalls}

NoResponse == [candidates |-> FALSE, function_calls |-> <<>>, text |-> FALSE]

\* The responses the model can give in one turn.  A response without
\* candidates carries no function calls and no text.
ModelResponses(req) ==
    {NoResponse}
    \cup {[candidates |-> TRUE, function_calls |-> fcs, text |-> t] :
              fcs \in {<<>>, req}, t \in BOOLEAN}

Display(kind, text, tool, notice) ==
    [kind |-> kind, text |-> text, tool |-> tool, notice |-> notice]

NothingDisplayed == Display("none", FALSE, "-", FALSE)

UserEntry(what) == [role |-> "user", what |-> what, parts |-> <<>>]
ModelEntry(r) == [role |-> "model", what |-> "response",
                  parts |-> r.function_calls]
\* the results in the reverse of the order they were appended in
ToolEntryReversed(parts) ==
    [role |-> "user", what |-> "tool_results",
     parts |-> [i \in 1..Len(parts) |-> parts[Len(parts) + 1 - i]]]

ToolEntry(parts) == [role |-> "user", what |-> "tool_results", parts |-> parts]

\* an initial history without the model's acknowledgement
InitialContentsWithoutAck ==
    << UserEntry("system_prompt"), UserEntry("user_prompt") >>

\* lines 107-111
InitialContents ==
    << UserEntry("system_prompt"),
       [role |-> "model", what |-> "ack", parts |-> <<>>],
       UserEntry("user_prompt") >>

\* lines 147-148: the first session, in list order, whose tool list holds
\* the name; 0 when there is none.
FindSessionLast(sessions, tool_name) ==
    LET hits == {i \in 1..Len(sessions) : tool_name \in sessions[i].tools}
    IN  IF hits = {} THEN 0
        ELSE CHOOSE i \in hits : \A j \in hits : j <= i

FindSession(sessions, tool_name) ==
    LET hits == {i \in 1..Len(sessions) : tool_name \in sessions[i].tools}
    IN  IF hits = {} THEN 0
        ELSE CHOOSE i \in hits : \A j \in hits : i <= j

\* lines 149-166: the function response built for one function call
ToolResponseNoNotFound(sessions, tool_name) ==
    LET s == FindSession(sessions, tool_name)
    IN  IF s = 0 \/ sessions[s].behaviour = "ok"
        THEN [name |-> tool_name, kind |-> "result", msg |-> "content"]
        ELSE IF sessions[s].behaviour = "isError"
             THEN [name |-> tool_name, kind |-> "error", msg |-> "content"]
             ELSE [name |-> tool_name, kind |-> "error",
                   msg |-> "execution_failed"]

ToolResponse(sessions, tool_name) ==
    LET s == FindSession(sessions, tool_name)
    IN  IF s = 0
        THEN [name |-> tool_name, kind |-> "error", msg |-> "not_found"]
        ELSE CASE sessions[s].behaviour = "ok" ->
                    [name |-> tool_name, kind |-> "result", msg |-> "content"]
               [] sessions[s].behaviour = "isError" ->
                    [name |-> tool_name, kind |-> "error", msg |-> "content"]
               [] OTHER ->
                    [name |-> tool_name, kind |-> "error",
                     msg |-> "execution_failed"]

\* line 134: the condition of the tool-calling loop
LoopConditionNoCallCheck(function_calls, turns) == turns < max_tool_turns

LoopConditionOffByOne(function_calls, turns) ==
    function_calls # <<>> /\ turns <= max_tool_turns

LoopCondition(function_calls, turns) ==
    function_calls # <<>> /\ turns < max_tool_turns

\* line 197: the condition of the truncation notice
TruncationConditionNoCallCheck(function_calls, turns) ==
    turns >= max_tool_turns

TruncationCondition(function_calls, turns) ==
    turns >= max_tool_turns /\ function_calls # <<>>

Raised == [outcome |-> "raised", function_calls |-> <<>>]
Returned(r) == [outcome |-> "returned", function_calls |-> r.function_calls]

InitLoop ==
    /\ client \in BOOLEAN
    /\ mcp_sessions \in SessionLists
    /\ fc_request \in FunctionCallLists
    /\ pc = "start"
    /\ contents = <<>>
    /\ response = NoResponse
    /\ response_text = [text |-> FALSE, notice |-> FALSE]
    /\ displayed = NothingDisplayed
    /\ turn_count = 0
    /\ fc_index = 0
    /\ tool_response_parts = <<>>
    /\ model_invocations = <<>>
    /\ tool_calls = <<>>

\* lines 99-111
Begin ==
    /\ pc = "start"
    /\ IF ~client
       THEN /\ displayed' = Display("no_api_key", FALSE, "-", FALSE)
            /\ pc' = "done"
            /\ UNCHANGED contents
       ELSE /\ contents' = InitialContents
            /\ pc' = "initial_call"
            /\ UNCHANGED displayed
    /\ UNCHANGED <<client, mcp_sessions, fc_request, response, response_text,
                   turn_count, fc_index, tool_response_parts,
                   model_invocations, tool_calls>>
    /\ UNCHANGED <<cfgVars, appVars, extVars>>

\* lines 201-203: the except clause of the whole body
ShowError ==
    /\ displayed' = Display("error", FALSE, "-", FALSE)
    /\ pc' = "done"

\* lines 114-129: the initial request and what follows its return
InitialModelCall ==
    /\ pc = "initial_call"
    /\ \/ \* the vendor call raises
          /\ model_invocations' = Append(model_invocations, Raised)
          /\ ShowError
          /\ UNCHANGED <<contents, response, response_text>>
       \/ \E r \in ModelResponses(fc_request) :
            /\ model_invocations' = Append(model_invocations, Returned(r))
            /\ response' = r
            /\ IF ~r.candidates
               THEN \* line 124: response.candidates[0] raises
                    /\ ShowError
                    /\ UNCHANGED <<contents, response_text>>
               ELSE /\ contents' = Append(contents, ModelEntry(r))
                    /\ displayed' =
                         IF r.text THEN Display("text", TRUE, "-", FALSE)
                         ELSE Display("thinking", FALSE, "-", FALSE)
                    /\ response_text' = [text |-> r.text, notice |-> FALSE]
                    /\ pc' = "while"
    /\ UNCHANGED <<client, mcp_sessions, fc_request, turn_count, fc_index,
                   tool_response_parts, tool_calls>>
    /\ UNCHANGED <<cfgVars, appVars, extVars>>

\* lines 134-136: the loop test and the head of the loop body
WhileTest ==
    /\ pc = "while"
    /\ IF LoopCondition(response.function_calls, turn_count)
       THEN /\ turn_count' = turn_count + 1
            /\ tool_response_parts' = <<>>
            /\ fc_index' = 1
            /\ pc' = "for"
       ELSE /\ pc' = "final"
            /\ UNCHANGED <<turn_count, tool_response_parts, fc_index>>
    /\ UNCHANGED <<client, mcp_sessions, fc_request, contents, response,
                   response_text, displayed, model_invocations, tool_calls>>
    /\ UNCHANGED <<cfgVars, appVars, extVars>>

\* lines 139-173: one iteration of the for loop over the function calls
ProcessFunctionCall ==
    /\ pc = "for"
    /\ fc_index <= Len(response.function_calls)
    /\ LET tool_name == response.function_calls[fc_index]
           s == FindSession(mcp_sessions, tool_name)
       IN  /\ displayed' = Display("using_tool", response_text.text,
                                   tool_name, FALSE)
           /\ tool_calls' =
                IF s = 0 THEN tool_calls
                ELSE Append(tool_calls, [session |-> s, name |-> tool_name,
                                         turn |-> turn_count])
           /\ tool_response_parts' =
                Append(tool_response_parts,
                       ToolResponse(mcp_sessions, tool_name))
    /\ fc_index' = fc_index + 1
    /\ UNCHANGED <<client, mcp_sessions, fc_request, pc, contents, response,
                   response_text, turn_count, model_invocations>>
    /\ UNCHANGED <<cfgVars, appVars, extVars>>

\* line 176: the tool results become one turn of the history
AppendToolTurn ==
    /\ pc = "for"
    /\ fc_index > Len(response.function_calls)
    /\ contents' = Append(contents, ToolEntry(tool_response_parts))
    /\ pc' = "next_call"
    /\ UNCHANGED <<client, mcp_sessions, fc_request, response, response_text,
                   displayed, turn_count, fc_index, tool_response_parts,
                   model_invocations, tool_calls>>
    /\ UNCHANGED <<cfgVars, appVars, extVars>>

\* lines 179-194: the next request and what follows its return
NextModelCall ==
    /\ pc = "next_call"
    /\ \/ /\ model_invocations' = Append(model_invocations, Raised)
          /\ ShowError
          /\ UNCHANGED <<contents, response, response_text>>
       \/ \E r \in ModelResponses(fc_request) :
            /\ model_invocations' = Append(model_invocations, Returned(r))
            /\ response' = r
            /\ IF ~r.candidates
               THEN \* line 189 yields "", line 194 raises after the update
                    /\ ShowError
                    /\ UNCHANGED <<contents, response_text>>
               ELSE /\ response_text' =
                         [text |-> r.text \/ response_text.text,
                          notice |-> FALSE]
                    /\ displayed' =
                         Display("text", r.text \/ response_text.text,
                                 "-", FALSE)
                    /\ contents' = Append(contents, ModelEntry(r))
                    /\ pc' = "while"
    /\ UNCHANGED <<client, mcp_sessions, fc_request, turn_count, fc_index,
                   tool_response_parts, tool_calls>>
    /\ UNCHANGED <<cfgVars, appVars, extVars>>

\* lines 196-199: the final update
FinalUpdate ==
    /\ pc = "final"
    /\ IF TruncationCondition(response.function_calls, turn_count)
       THEN /\ response_text' = [response_text EXCEPT !.notice = TRUE]
            /\ displayed' = Display("text", response_text.text, "-", TRUE)
       ELSE UNCHANGED <<response_text, displayed>>
    /\ pc' = "done"
    /\ UNCHANGED <<client, mcp_sessions, fc_request, contents, response,
                   turn_count, fc_index, tool_response_parts,
                   model_invocations, tool_calls>>
    /\ UNCHANGED <<cfgVars, appVars, extVars>>

NextLoop ==
    \/ Begin
    \/ InitialModelCall
    \/ WhileTest
    \/ ProcessFunctionCall
    \/ AppendToolTurn
    \/ NextModelCall
    \/ FinalUpdate

(***************************************************************************)
(* Configuration persistence of the three variants:                        *)
(*   gemini  gemini_terminal/config.py  ConfigManager (YAML)               *)
(*   llm     llm_terminal/config.py     load_settings / save_settings      *)
(*   src     src/config.py              AppConfig.load / AppConfig.save    *)
(*                                                                         *)
(* A file is missing, unparseable text, empty, a parsed document that is   *)
(* no mapping (a list), or a mapping.  A mapping is kept as the set of     *)
(* keys it has and the value of each; the value of an absent key is a      *)
(* filler.  The YAML dump of a dataclass instance is a tagged node         *)
(* (!!python/object), which yaml.safe_load refuses.                        *)
(***************************************************************************)
Variants == {"gemini", "llm", "src"}

\* data_models.py:14-15, llm_terminal/config.py:8,28, src/config.py:7
DefaultPrompt(v) ==
    CASE v = "gemini" -> "You are a sentient AI assistant."
      [] v = "llm" -> "You are a helpful AI assistant."
      [] OTHER -> "Formulate all responses as if you were a sentient AI."

DefaultModel(v) ==
    CASE v = "gemini" -> "gemini-2.5-pro-exp-03-25"
      [] v = "llm" -> "openai:o4-mini"
      [] OTHER -> "n/a"

\* data_models.py:9 active = False; src/config.py:14 enabled = True
DefaultFlag(v) == v = "src"

\* src/config.py:10-11 (gemini's name and command have no default)
DefaultServerName == "Default Server"
DefaultServerCommand == "python"

NoServers == <<>>

MakeConfig(api_key, system_prompt, model, servers) ==
    [api_key |-> api_key, system_prompt |-> system_prompt, model |-> model,
     servers |-> servers]

\* AppConfig() / DEFAULT_SETTINGS.copy() / cls()
Defaults(v) ==
    MakeConfig(IF v = "gemini" THEN "" ELSE "n/a", DefaultPrompt(v),
               DefaultModel(v), NoServers)

\* The server values the model draws from.
ServerValues ==
    { [name |-> "s1", command |-> "python", args |-> <<>>, env |-> "{}",
       flag |-> TRUE],
      [name |-> "s1", command |-> "/bin/node", args |-> <<"x">>,
       env |-> "{K: V}", flag |-> FALSE],
      [name |-> DefaultServerName, command |-> "/bin/node", args |-> <<>>,
       env |-> "{}", flag |-> TRUE],
      [name |-> DefaultServerName, command |-> "", args |-> <<"x">>,
       env |-> "{}", flag |-> FALSE] }

ServerLists == UNION {[1..n -> ServerValues] : n \in 0..MaxServers}

\* The configurations an application can hold in memory.
Configs(v) ==
    CASE v = "gemini" ->
           {MakeConfig(k, p, m, l) :
               k \in {"", "key"}, p \in {DefaultPrompt(v), "custom prompt"},
               m \in {DefaultModel(v), "custom-model"}, l \in ServerLists}
      [] v = "llm" ->
           {MakeConfig("n/a", p, m, NoServers) :
               p \in {DefaultPrompt(v), "custom prompt"},
               m \in {DefaultModel(v), "custom-model"}}
      [] OTHER ->
           {MakeConfig("n/a", p, "n/a", l) :
               p \in {DefaultPrompt(v), "custom prompt"}, l \in ServerLists}

\* ---- documents ----
TopKeys == {"api_key", "system_prompt", "model", "servers", "command",
            "unknown"}
ServerKeys == {"name", "command", "args", "env", "flag", "unknown"}

EmptyDoc ==
    [has |-> {}, api_key |-> "", system_prompt |-> "", model |-> "",
     servers |-> <<>>, command |-> ""]

FileOf(kind) == [kind |-> kind, doc |-> EmptyDoc]
MapFile(doc) == [kind |-> "map", doc |-> doc]

\* One server written out with all its fields; tagged when it is the dump of
\* a dataclass instance.
ServerDoc(s, tagged) ==
    [tagged |-> tagged, has |-> {"name", "command", "args", "env", "flag"},
     name |-> s.name, command |-> s.command, args |-> s.args, env |-> s.env,
     flag |-> s.flag]

ServerDocs(list, tagged) == [i \in DOMAIN list |-> ServerDoc(list[i], tagged)]

\* A document without key k (its value back to the filler).
WithoutKey(doc, k) ==
    [[doc EXCEPT !.has = doc.has \ {k}] EXCEPT
        ![k] = IF k = "unknown" THEN "" ELSE EmptyDoc[k]]

\* server.get(key, default) on a server entry of a document
ServerGet(sd, key, default) == IF key \in sd.has THEN sd[key] ELSE default

\* ---- gemini_terminal/config.py ----
\* lines 32-45: yaml.dump(config.__dict__): the four fields, the servers as
\* tagged dataclass instances
GeminiSaveConfig(config) ==
    MapFile([has |-> {"api_key", "system_prompt", "model", "servers"},
             api_key |-> config.api_key,
             system_prompt |-> config.system_prompt,
             model |-> config.model,
             servers |-> ServerDocs(config.servers, TRUE),
             command |-> ""])

\* line 23: ServerConfig(**server_data) accepts the entry
GeminiServerAccepted(sd) ==
    /\ {"name", "command"} \subseteq sd.has
    /\ "unknown" \notin sd.has

GeminiServer(sd) ==
    [name |-> sd.name, command |-> sd.command,
     args |-> ServerGet(sd, "args", <<>>),
     env |-> ServerGet(sd, "env", "{}"),
     flag |-> ServerGet(sd, "flag", DefaultFlag("gemini"))]

\* lines 13-30.  Every exception is caught (line 27) and AppConfig() returned.
GeminiLoadConfig(file) ==
    LET d == file.doc
        ok == /\ file.kind = "map"
              /\ \A i \in DOMAIN d.servers :
                    /\ ~d.servers[i].tagged
                    /\ GeminiServerAccepted(d.servers[i])
              /\ d.has \subseteq {"api_key", "system_prompt", "model",
                                  "servers"}
    IN  [raised |-> FALSE,
         config |->
           IF ~ok THEN Defaults("gemini")
           ELSE MakeConfig(
                  IF "api_key" \in d.has THEN d.api_key ELSE "",
                  IF "system_prompt" \in d.has THEN d.system_prompt
                  ELSE DefaultPrompt("gemini"),
                  IF "model" \in d.has THEN d.model
                  ELSE DefaultModel("gemini"),
                  [i \in DOMAIN d.servers |-> GeminiServer(d.servers[i])])]

\* ---- llm_terminal/config.py ----
\* lines 106-119
LlmSaveSettings(model_id, prompt) ==
    MapFile([EmptyDoc EXCEPT !.has = {"model", "system_prompt"},
                             !.model = model_id,
                             !.system_prompt = prompt])

\* lines 83-104
LlmLoadSettings(file) ==
    LET d == file.doc
    IN  [raised |-> FALSE,
         config |->
           IF file.kind # "map" THEN Defaults("llm")
           ELSE MakeConfig("n/a",
                  IF "system_prompt" \in d.has THEN d.system_prompt
                  ELSE DefaultPrompt("llm"),
                  IF "model" \in d.has THEN d.model ELSE DefaultModel("llm"),
                  NoServers)]

\* ---- src/config.py ----
\* lines 62-66: json.dump(self.model_dump())
SrcSave(config) ==
    MapFile([EmptyDoc EXCEPT !.has = {"system_prompt", "servers"},
                             !.system_prompt = config.system_prompt,
                             !.servers = ServerDocs(config.servers, FALSE)])

\* line 54: command.split("/")[-1]
BaseName(command) ==
    CASE command = "/bin/node" -> "node"
      [] OTHER -> command

\* lines 47-58: a server stored under the default name is renamed
SrcMigratedName(sd, i) ==
    IF "name" \in sd.has /\ sd.name = DefaultServerName
    THEN LET command == ServerGet(sd, "command", "")
         IN  IF command # ""
             THEN BaseName(command) \o " Server " \o ToString(i)
             ELSE "MCP Server " \o ToString(i)
    ELSE ServerGet(sd, "name", DefaultServerName)

\* ServerConfig validation of one entry (pydantic: absent fields default,
\* unknown fields are ignored)
SrcServer(sd, i) ==
    [name |-> SrcMigratedName(sd, i),
     command |-> ServerGet(sd, "command", DefaultServerCommand),
     args |-> ServerGet(sd, "args", <<>>),
     env |-> ServerGet(sd, "env", "{}"),
     flag |-> ServerGet(sd, "flag", DefaultFlag("src"))]

\* lines 31-44: the old format, a top-level command, becomes one server
SrcLegacyServers(d) ==
    << [name |-> "Migrated Server", command |-> d.command, args |-> <<>>,
        env |-> "{}", flag |-> DefaultFlag("src")] >>

\* lines 20-60.  Nothing is caught: json.load raises on text that is no JSON
\* and on an empty file, and cls(**data) raises on a list.
SrcLoadNoExistsCheck(file) ==
    [raised |-> file.kind # "map",
     config |-> Defaults("src")]

SrcLoad(file) ==
    LET d == file.doc
    IN  CASE file.kind = "missing" ->
               [raised |-> FALSE, config |-> Defaults("src")]
          [] file.kind \in {"unparseable", "empty", "list"} ->
               [raised |-> TRUE, config |-> Defaults("src")]
          [] OTHER ->
               [raised |-> FALSE,
                config |->
                  MakeConfig("n/a",
                    IF "system_prompt" \in d.has THEN d.system_prompt
                    ELSE DefaultPrompt("src"),
                    "n/a",
                    IF "command" \in d.has /\ "servers" \notin d.has
                    THEN SrcLegacyServers(d)
                    ELSE [i \in DOMAIN d.servers |->
                            SrcServer(d.servers[i], i)])]

\* ---- the store of the chosen variant ----
LoadConfig(v, file) ==
    CASE v = "gemini" -> GeminiLoadConfig(file)
      [] v = "llm" -> LlmLoadSettings(file)
      [] OTHER -> SrcLoad(file)

SaveConfig(v, config) ==
    CASE v = "gemini" -> GeminiSaveConfig(config)
      [] v = "llm" -> LlmSaveSettings(config.model, config.system_prompt)
      [] OTHER -> SrcSave(config)

\* The keys the variant's own save writes.
WrittenKeys(v) ==
    CASE v = "gemini" -> {"api_key", "system_prompt", "model", "servers"}
      [] v = "llm" -> {"model", "system_prompt"}
      [] OTHER -> {"system_prompt", "servers"}

\* The files the start-up load is tried on: no file, broken files, the files
\* a save writes, the same written by hand (plain mappings), and those with
\* one key missing, an unknown key, or the old top-level command.
HandWritten(v, c) ==
    IF v = "gemini"
    THEN MapFile([GeminiSaveConfig(c).doc EXCEPT
                     !.servers = ServerDocs(c.servers, FALSE)])
    ELSE SaveConfig(v, c)

ConfigFiles(v) ==
    {FileOf(k) : k \in {"missing", "unparseable", "empty", "list"}}
    \cup {SaveConfig(v, c) : c \in Configs(v)}
    \cup {HandWritten(v, c) : c \in Configs(v)}
    \cup {MapFile(WithoutKey(HandWritten(v, c).doc, k)) :
             c \in Configs(v), k \in WrittenKeys(v)}
    \cup {MapFile([HandWritten(v, c).doc EXCEPT !.has = @ \cup {"unknown"}]) :
             c \in Configs(v)}
    \cup {MapFile([WithoutKey(HandWritten(v, c).doc, "servers") EXCEPT
                      !.has = @ \cup {"command"}, !.command = "/bin/node"]) :
             c \in Configs(v)}

CfgIdle ==
    /\ cfg_variant = "gemini"
    /\ cfg_file = FileOf("missing")
    /\ cfg_pc = "off"
    /\ cfg_memory = Defaults("gemini")
    /\ cfg_last = "none"
    /\ cfg_saved = Defaults("gemini")
    /\ cfg_file_saved = FALSE

InitConfig ==
    /\ cfg_variant \in Variants
    /\ cfg_file \in ConfigFiles(cfg_variant)
    /\ cfg_pc = "off"
    /\ cfg_memory = Defaults(cfg_variant)
    /\ cfg_last = "none"
    /\ cfg_saved = Defaults(cfg_variant)
    /\ cfg_file_saved = FALSE

\* Application start-up: GeminiTerminalApp.__init__ (main.py:39),
\* TerminalApp.on_mount (llm_terminal/app.py:85), TerminalApp.__init__
\* (src/app.py:44).  A load that raises aborts the start-up.
StartUp ==
    /\ cfg_pc = "off"
    /\ LET r == LoadConfig(cfg_variant, cfg_file)
       IN  /\ cfg_pc' = IF r.raised THEN "crashed" ELSE "running"
           /\ cfg_memory' = r.config
    /\ cfg_last' = "load"
    /\ UNCHANGED <<cfg_variant, cfg_file, cfg_saved, cfg_file_saved>>
    /\ UNCHANGED <<loopVars, appVars, extVars>>

\* A UI action changes the configuration held in memory.
EditConfig ==
    /\ cfg_pc = "running"
    /\ \E c \in Configs(cfg_variant) :
          /\ c # cfg_memory
          /\ cfg_memory' = c
    /\ cfg_last' = "edit"
    /\ UNCHANGED <<cfg_variant, cfg_file, cfg_pc, cfg_saved, cfg_file_saved>>
    /\ UNCHANGED <<loopVars, appVars, extVars>>

\* save_config / save_settings / AppConfig.save of the in-memory value
Save ==
    /\ cfg_pc = "running"
    /\ cfg_file' = SaveConfig(cfg_variant, cfg_memory)
    /\ cfg_saved' = cfg_memory
    /\ cfg_file_saved' = TRUE
    /\ cfg_last' = "save"
    /\ UNCHANGED <<cfg_variant, cfg_pc, cfg_memory>>
    /\ UNCHANGED <<loopVars, appVars, extVars>>

\* The application exits; what it held in memory is gone.
Quit ==
    /\ cfg_pc = "running"
    /\ cfg_pc' = "off"
    /\ cfg_memory' = Defaults(cfg_variant)
    /\ cfg_last' = "quit"
    /\ UNCHANGED <<cfg_variant, cfg_file, cfg_saved, cfg_file_saved>>
    /\ UNCHANGED <<loopVars, appVars, extVars>>

NextConfig ==
    \/ StartUp
    \/ EditConfig
    \/ Save
    \/ Quit

(***************************************************************************)
(* llm_terminal/app.py and agent_service.py: the application, its prompt   *)
(* queue and its agent workers.                                            *)
(*                                                                         *)
(* Each event handler of the application runs to its end before the next   *)
(* one starts (one message pump).  An agent worker is a thread worker      *)
(* (@work(thread=True)): cancelling it changes its Textual state but does  *)
(* not stop the thread, which never looks at is_cancelled; a cancelled     *)
(* worker goes on taking items from the queue it shares with its           *)
(* successor.  Each worker owns one AgentService.                          *)
(***************************************************************************)
CLEAR_HISTORY == "__CLEAR_HISTORY__"

\* the texts a user submits in #chat-input (stripped, not empty)
PromptTexts == {"hello", CLEAR_HISTORY}

Item(text, widget) == [text |-> text, widget |-> widget]
NoItem == Item("-", 0)
\* app.py:123  self.prompt_queue.put(None)
StopItem == Item("None", 0)
\* app.py:328  ("__CLEAR_HISTORY__", None)
ClearItem == Item(CLEAR_HISTORY, 0)

WorkerIds == 1..MaxWorkers
PromptIds == 1..MaxPrompts

NoWorker ==
    [state |-> "NONE", at |-> "-", model_id |-> "-", sys_prompt |-> "-",
     is_initialized |-> FALSE, mcp_open |-> FALSE, message_history |-> <<>>,
     item |-> NoItem,
     \* log: the number of New Chat presses made when message_history was
     \* last set to []
     emptied_at |-> 0]

\* app.py:105 and 146-156: a worker in Textual state RUNNING whose thread is
\* about to create and initialize its AgentService
NewWorker(model_id, sys_prompt) ==
    [NoWorker EXCEPT !.state = "RUNNING", !.at = "init",
                     !.model_id = model_id, !.sys_prompt = sys_prompt]

Started(ws) == {w \in WorkerIds : ws[w].state # "NONE"}

\* app.py:273 and 326
WorkerRunning(ws, inst) == inst # 0 /\ ws[inst].state = "RUNNING"

\* app.py:107-144  _stop_agent_worker: the queue after it
QueueAfterStop(q, ws, inst) == IF inst = 0 THEN q ELSE Append(q, StopItem)

\* app.py:128-139: cancel_group marks the running workers of the group
\* cancelled; their threads run on
WorkersAfterStop(ws, inst) ==
    IF inst # 0 /\ ws[inst].state = "RUNNING"
    THEN [w \in WorkerIds |->
            IF ws[w].state = "RUNNING"
            THEN [ws[w] EXCEPT !.state = "CANCELLED"] ELSE ws[w]]
    ELSE ws

\* app.py:100-105  _start_agent_worker, called with no instance set
WorkersAfterStart(ws, model_id, sys_prompt) ==
    LET n == Cardinality(Started(ws)) + 1
    IN  [ws EXCEPT ![n] = NewWorker(model_id, sys_prompt)]

\* a worker that goes back to waiting on the queue instead of returning
ThreadExitKeepsLooping(wr) == [wr EXCEPT !.at = "get", !.item = NoItem]

\* The thread function returns: a worker still RUNNING becomes SUCCESS.
ThreadExit(wr) ==
    [wr EXCEPT !.at = "exited",
               !.item = NoItem,
               !.state = IF @ = "RUNNING" THEN "SUCCESS" ELSE @]

AppStartFiles(v) ==
    {FileOf("missing")} \cup {HandWritten(v, c) : c \in Configs(v)}

AppIdle ==
    /\ chat_view = {}
    /\ widgets = [p \in PromptIds |-> "unused"]
    /\ prompt_queue = <<>>
    /\ agent_worker_instance = 0
    /\ mcp_config_file = "missing"
    /\ workers = [w \in WorkerIds |-> NoWorker]
    /\ submitted = 0
    /\ prompt_epoch = [p \in PromptIds |-> 0]
    /\ new_chat_presses = 0

InitApp ==
    /\ cfg_variant \in Variants
    /\ cfg_file \in AppStartFiles(cfg_variant)
    /\ cfg_pc = "off"
    /\ cfg_memory = Defaults(cfg_variant)
    /\ cfg_last = "none"
    /\ cfg_saved = Defaults(cfg_variant)
    /\ cfg_file_saved = FALSE
    /\ chat_view = {}
    /\ widgets = [p \in PromptIds |-> "unused"]
    /\ prompt_queue = <<>>
    /\ agent_worker_instance = 0
    /\ mcp_config_file \in
          IF cfg_variant = "llm" THEN {"missing", "present"} ELSE {"missing"}
    /\ workers = [w \in WorkerIds |-> NoWorker]
    /\ submitted = 0
    /\ prompt_epoch = [p \in PromptIds |-> 0]
    /\ new_chat_presses = 0

\* app.py:83-94  on_mount
LlmOnMount ==
    /\ cfg_variant = "llm"
    /\ cfg_pc = "off"
    /\ LET loaded == LlmLoadSettings(cfg_file).config
       IN  /\ cfg_memory' = loaded
           /\ workers' = WorkersAfterStart(workers, loaded.model,
                                           loaded.system_prompt)
    /\ cfg_pc' = "running"
    /\ cfg_last' = "load"
    /\ mcp_config_file' = "present"
    /\ prompt_queue' = <<>>
    /\ agent_worker_instance' = 1
    /\ UNCHANGED <<cfg_variant, cfg_file, cfg_saved, cfg_file_saved>>
    /\ UNCHANGED <<chat_view, widgets, submitted, prompt_epoch,
                   new_chat_presses>>
    /\ UNCHANGED <<loopVars, extVars>>

\* app.py:258-278  on_input
OnInput ==
    /\ cfg_variant = "llm"
    /\ cfg_pc = "running"
    /\ submitted < MaxPrompts
    /\ \E text \in PromptTexts :
         LET w == submitted + 1
         IN  /\ submitted' = w
             /\ prompt_epoch' = [prompt_epoch EXCEPT ![w] = new_chat_presses]
             /\ chat_view' = chat_view \cup {w}
             /\ IF WorkerRunning(workers, agent_worker_instance)
                THEN /\ prompt_queue' = Append(prompt_queue, Item(text, w))
                     /\ widgets' = [widgets EXCEPT ![w] = "placeholder"]
                ELSE /\ widgets' = [widgets EXCEPT ![w] = "not_ready"]
                     /\ UNCHANGED prompt_queue
    /\ UNCHANGED <<agent_worker_instance, mcp_config_file, workers,
                   new_chat_presses>>
    /\ UNCHANGED <<cfgVars, loopVars, extVars>>

\* A New Chat handler that also writes the settings file.
NewChatPressedSaving ==
    /\ cfg_variant = "llm"
    /\ cfg_pc = "running"
    /\ new_chat_presses < MaxPresses
    /\ new_chat_presses' = new_chat_presses + 1
    /\ chat_view' = {}
    /\ prompt_queue' =
         IF WorkerRunning(workers, agent_worker_instance)
         THEN Append(prompt_queue, ClearItem)
         ELSE prompt_queue
    /\ cfg_file' = LlmSaveSettings(cfg_memory.model, cfg_memory.system_prompt)
    /\ UNCHANGED <<cfg_variant, cfg_pc, cfg_memory, cfg_last, cfg_saved,
                   cfg_file_saved>>
    /\ UNCHANGED <<widgets, agent_worker_instance, mcp_config_file, workers,
                   submitted, prompt_epoch>>
    /\ UNCHANGED <<loopVars, extVars>>

\* app.py:316-331  on_button_pressed, "new-chat-button"
NewChatPressed ==
    /\ cfg_variant = "llm"
    /\ cfg_pc = "running"
    /\ new_chat_presses < MaxPresses
    /\ new_chat_presses' = new_chat_presses + 1
    /\ chat_view' = {}
    /\ prompt_queue' =
         IF WorkerRunning(workers, agent_worker_instance)
         THEN Append(prompt_queue, ClearItem)
         ELSE prompt_queue
    /\ UNCHANGED <<widgets, agent_worker_instance, mcp_config_file, workers,
                   submitted, prompt_epoch>>
    /\ UNCHANGED <<cfgVars, loopVars, extVars>>

\* app.py:306-311 and 338-339: _stop_agent_worker, then _start_agent_worker
RestartWorker(model_id, sys_prompt) ==
    /\ Cardinality(Started(workers)) < MaxWorkers
    /\ prompt_queue' =
         QueueAfterStop(prompt_queue, workers, agent_worker_instance)
    /\ workers' =
         WorkersAfterStart(WorkersAfterStop(workers, agent_worker_instance),
                           model_id, sys_prompt)
    /\ agent_worker_instance' = Cardinality(Started(workers)) + 1

\* app.py:335-339  on_button_pressed, "reload-config-button"
ReloadPressed ==
    /\ cfg_variant = "llm"
    /\ cfg_pc = "running"
    /\ RestartWorker(cfg_memory.model, cfg_memory.system_prompt)
    /\ UNCHANGED <<chat_view, widgets, mcp_config_file, submitted,
                   prompt_epoch, new_chat_presses>>
    /\ UNCHANGED <<cfgVars, loopVars, extVars>>

\* the texts typed into #model-input and #system-prompt-input
SettingsWidgets == {"model-input", "system-prompt-input"}
SettingsValues(widget_id) ==
    IF widget_id = "model-input"
    THEN {"", " ", "openai:o4-mini", "custom-model", "custom-model "}
    ELSE {"", "You are a helpful AI assistant.", "custom prompt"}

\* app.py:287  event.value.strip(), on the texts of SettingsValues
Strip(value) ==
    CASE value = " " -> ""
      [] value = "custom-model " -> "custom-model"
      [] OTHER -> value

\* a handler that restarts whenever a value is submitted, changed or not
NeedsRestartWhenSubmitted(widget_id, value, config) ==
    widget_id = "model-input" => Strip(value) # ""

\* app.py:286-304  needs_restart
NeedsRestart(widget_id, value, config) ==
    IF widget_id = "model-input"
    THEN Strip(value) # "" /\ Strip(value) # config.model
    ELSE value # config.system_prompt

\* app.py:280-313  on_settings_change_submitted.  save_settings writes the
\* file (config.py:106-119).
SettingsChangeSubmitted(widget_id, value) ==
    /\ cfg_variant = "llm"
    /\ cfg_pc = "running"
    /\ IF NeedsRestart(widget_id, value, cfg_memory)
       THEN /\ cfg_memory' =
                 IF widget_id = "model-input"
                 THEN [cfg_memory EXCEPT !.model = Strip(value)]
                 ELSE [cfg_memory EXCEPT !.system_prompt = value]
            /\ cfg_file' = LlmSaveSettings(cfg_memory'.model,
                                           cfg_memory'.system_prompt)
            /\ cfg_saved' = cfg_memory'
            /\ cfg_file_saved' = TRUE
            /\ cfg_last' = "save"
            /\ RestartWorker(cfg_memory'.model, cfg_memory'.system_prompt)
       ELSE UNCHANGED <<cfg_memory, cfg_file, cfg_saved, cfg_file_saved,
                        cfg_last, prompt_queue, workers,
                        agent_worker_instance>>
    /\ UNCHANGED <<cfg_variant, cfg_pc>>
    /\ UNCHANGED <<chat_view, widgets, mcp_config_file, submitted,
                   prompt_epoch, new_chat_presses>>
    /\ UNCHANGED <<loopVars, extVars>>

SettingsSubmitted ==
    \E widget_id \in SettingsWidgets :
       \E value \in SettingsValues(widget_id) :
          SettingsChangeSubmitted(widget_id, value)

\* ---- the worker thread: app.py:146-256, agent_service.py ----
\* app.py:152-162 with agent_service.py:40-83  AgentService.initialize
WorkerInitialize(w) ==
    /\ workers[w].at = "init"
    /\ \/ workers' = [workers EXCEPT
                         ![w].is_initialized = TRUE,
                         ![w].mcp_open = TRUE,
                         ![w].message_history = <<>>,
                         ![w].emptied_at = new_chat_presses,
                         ![w].at = "get"]
       \/ \* the agent or its servers fail to start: _cleanup_resources,
          \* then the worker returns (app.py:159-162)
          workers' = [workers EXCEPT
                         ![w] = ThreadExit([@ EXCEPT
                                   !.emptied_at = new_chat_presses])]
    /\ mcp_config_file' = "present"
    /\ UNCHANGED <<chat_view, widgets, prompt_queue, agent_worker_instance,
                   submitted, prompt_epoch, new_chat_presses>>
    /\ UNCHANGED <<cfgVars, loopVars, extVars>>

\* agent_service.py:115-120  clear_history
ClearedHistory(history) == <<>>

\* app.py:166-191: one item is taken from the queue
WorkerGet(w) ==
    /\ workers[w].at = "get"
    /\ prompt_queue # <<>>
    /\ prompt_queue' = Tail(prompt_queue)
    /\ LET item == Head(prompt_queue)
       IN  workers' =
             CASE item = StopItem ->
                    [workers EXCEPT ![w] = ThreadExit(workers[w])]
               [] item.text = CLEAR_HISTORY ->
                    IF workers[w].is_initialized
                    THEN [workers EXCEPT
                            ![w].message_history = ClearedHistory(@),
                            ![w].emptied_at = new_chat_presses]
                    ELSE workers
               [] item.widget = 0 -> workers
               [] OTHER ->
                    [workers EXCEPT ![w].at = "busy", ![w].item = item]
    /\ UNCHANGED <<chat_view, widgets, agent_worker_instance,
                   mcp_config_file, submitted, prompt_epoch,
                   new_chat_presses>>
    /\ UNCHANGED <<cfgVars, loopVars, extVars>>

\* app.py:196-237 with agent_service.py:122-178: the stream of one prompt
\* runs to its end.  A stream that ends well replaces the history by the
\* run's messages (the old history and this prompt's); one that raises
\* leaves the history alone.  The widget shows the last text chunk, or the
\* completion notice when no chunk came.
WorkerFinishPrompt(w) ==
    /\ workers[w].at = "busy"
    /\ \E stream_ok \in BOOLEAN, text_received \in BOOLEAN :
         /\ workers' = [workers EXCEPT
               ![w].at = "get",
               ![w].item = NoItem,
               ![w].message_history =
                   IF stream_ok THEN Append(@, workers[w].item.widget) ELSE @]
         /\ widgets' = [widgets EXCEPT
               ![workers[w].item.widget] =
                   IF text_received THEN "text" ELSE "complete"]
         /\ model_calls' = [model_calls EXCEPT
               ![workers[w].item.widget] = @ + 1]
         /\ vendor_raised' =
               IF stream_ok THEN vendor_raised
               ELSE vendor_raised \cup {workers[w].item.widget}
    /\ UNCHANGED <<tasks, dlgVars, gemVars, srcVars>>
    /\ UNCHANGED <<chat_view, prompt_queue, agent_worker_instance,
                   mcp_config_file, submitted, prompt_epoch,
                   new_chat_presses>>
    /\ UNCHANGED <<cfgVars, loopVars>>
    /\ UNCHANGED svcVars

(***************************************************************************)
(* gemini_terminal/main.py and src/app.py: start-up, the new-conversation  *)
(* button and one handler that changes the configuration.                  *)
(***************************************************************************)
DlgIdle ==
    /\ dialog = "none"
    /\ selected_server = 0
    /\ old_api_key = ""
    /\ edit_server = 0
    /\ opened_on = <<>>

NoClient == [api_key |-> "", model |-> "-"]

GemIdle == gemini_client = NoClient

\* servers: the server_configs argument (names); sessions: active_sessions,
\* with the number of close() calls made on each; connect_calls: log of the
\* connect_to_server calls; failed: the server whose connection failed
NoTask ==
    [kind |-> "none", at |-> "-", mentions_tool |-> FALSE, servers |-> <<>>,
     sessions |-> <<>>, connect_calls |-> <<>>, failed |-> ""]

NewTask(kind) == [NoTask EXCEPT !.kind = kind, !.at = "start"]

TaskIdle ==
    /\ tasks = [p \in PromptIds |-> NoTask]
    /\ vendor_raised = {}
    /\ model_calls = [p \in PromptIds |-> 0]

ConnectIds == 1..MaxConnects

NoConnect == [at |-> "-", server |-> 0]

\* src/app.py:41-47
SrcIdle ==
    /\ session = 0
    /\ exit_stack = 0
    /\ mcp_tools = {}
    /\ mcp_connected = "False"
    /\ stacks = [k \in ConnectIds |-> "unused"]
    /\ connects = [k \in ConnectIds |-> NoConnect]
    /\ closers = 0
    /\ toggles = <<>>

\* agent_service.py:20-34  AgentService.__init__
NewAgentService ==
    [model_identifier |-> "", system_prompt |-> "", agent |-> "None",
     mcp_stack |-> "None", is_initialized |-> FALSE, message_history |-> <<>>]

\* no method has been called yet
NoCall ==
    [op |-> "none", at |-> "returned", outcome |-> "-", prompt |-> "-",
     before |-> NewAgentService]

SvcIdle ==
    /\ agent_service = NewAgentService
    /\ service_call = NoCall

ExtIdle == DlgIdle /\ GemIdle /\ TaskIdle /\ SrcIdle /\ SvcIdle

\* main.py:44-50  initialize_gemini: a new client when a key is configured,
\* the old one (or none) kept otherwise
InitializedGemini(config, old) ==
    IF config.api_key # ""
    THEN [api_key |-> config.api_key, model |-> config.model]
    ELSE old

\* main.py:36-42  GeminiTerminalApp.__init__
GeminiAppInit ==
    /\ cfg_variant = "gemini"
    /\ cfg_pc = "off"
    /\ cfg_memory' = GeminiLoadConfig(cfg_file).config
    /\ gemini_client' = InitializedGemini(cfg_memory', NoClient)
    /\ cfg_pc' = "running"
    /\ cfg_last' = "load"
    /\ UNCHANGED <<cfg_variant, cfg_file, cfg_saved, cfg_file_saved>>
    /\ UNCHANGED <<appVars, loopVars, dlgVars, taskVars, srcVars>>
    /\ UNCHANGED svcVars

\* main.py:148-154  on_server_toggle with components.py:21-23 and
\* main.py:66-68  save_config
GeminiOnServerToggle ==
    /\ cfg_variant = "gemini"
    /\ cfg_pc = "running"
    /\ dialog = "none"
    /\ \E i \in DOMAIN cfg_memory.servers :
          cfg_memory' = [cfg_memory EXCEPT !.servers[i].flag = ~@]
    /\ cfg_file' = GeminiSaveConfig(cfg_memory')
    /\ cfg_saved' = cfg_memory'
    /\ cfg_file_saved' = TRUE
    /\ cfg_last' = "save"
    /\ UNCHANGED <<cfg_variant, cfg_pc>>
    /\ UNCHANGED <<appVars, loopVars, extVars>>

\* main.py:156-166  on_new_conversation
GeminiOnNewConversation ==
    /\ cfg_variant = "gemini"
    /\ cfg_pc = "running"
    /\ dialog = "none"
    /\ new_chat_presses < MaxPresses
    /\ new_chat_presses' = new_chat_presses + 1
    /\ chat_view' = {}
    /\ UNCHANGED <<widgets, prompt_queue, agent_worker_instance,
                   mcp_config_file, workers, submitted, prompt_epoch>>
    /\ UNCHANGED <<cfgVars, loopVars, extVars>>

\* server_toggles.py:61-78  update_servers: one button for each enabled
\* server, holding the server's index in the list
RECURSIVE UpdateServersFrom(_, _)
UpdateServersFrom(servers, i) ==
    IF i > Len(servers) THEN <<>>
    ELSE (IF servers[i].flag
          THEN <<[server_index |-> i, is_connected |-> FALSE]>>
          ELSE <<>>) \o UpdateServersFrom(servers, i + 1)

UpdateServers(servers) == UpdateServersFrom(servers, 1)

\* src/app.py:39-48, 66-82  TerminalApp.__init__ (AppConfig.load() may
\* raise) and on_mount, which fills the toggle bar
SrcAppInit ==
    /\ cfg_variant = "src"
    /\ cfg_pc = "off"
    /\ LET r == SrcLoad(cfg_file)
       IN  /\ cfg_memory' = r.config
           /\ cfg_pc' = IF r.raised THEN "crashed" ELSE "running"
           /\ toggles' = IF r.raised THEN toggles
                         ELSE UpdateServers(r.config.servers)
    /\ cfg_last' = "load"
    /\ UNCHANGED <<cfg_variant, cfg_file, cfg_saved, cfg_file_saved>>
    /\ UNCHANGED <<session, exit_stack, mcp_tools, mcp_connected, stacks,
                   connects, closers>>
    /\ UNCHANGED <<appVars, loopVars, dlgVars, gemVars, taskVars>>
    /\ UNCHANGED svcVars

\* src/app.py:87-94  on_system_prompt_changed
SrcOnSystemPromptChanged ==
    /\ cfg_variant = "src"
    /\ cfg_pc = "running"
    /\ dialog = "none"
    /\ \E text \in {DefaultPrompt("src"), "custom prompt"} :
          cfg_memory' = [cfg_memory EXCEPT !.system_prompt = text]
    /\ cfg_file' = SrcSave(cfg_memory')
    /\ cfg_saved' = cfg_memory'
    /\ cfg_file_saved' = TRUE
    /\ cfg_last' = "save"
    /\ UNCHANGED <<cfg_variant, cfg_pc>>
    /\ UNCHANGED <<appVars, loopVars, extVars>>

\* src/app.py:96-101  on_new_conversation
SrcOnNewConversation ==
    /\ cfg_variant = "src"
    /\ cfg_pc = "running"
    /\ dialog = "none"
    /\ new_chat_presses < MaxPresses
    /\ new_chat_presses' = new_chat_presses + 1
    /\ chat_view' = {}
    /\ UNCHANGED <<widgets, prompt_queue, agent_worker_instance,
                   mcp_config_file, workers, submitted, prompt_epoch>>
    /\ UNCHANGED <<cfgVars, loopVars, extVars>>

(***************************************************************************)
(* src/ui/tool_settings.py: ToolSettingsDialog, opened on the application's *)
(* own AppConfig object (src/app.py:105), which its handlers change in      *)
(* place.                                                                  *)
(***************************************************************************)
Remove(list, i) ==
    [k \in 1..(Len(list) - 1) |-> IF k < i THEN list[k] ELSE list[k + 1]]

\* src/app.py:103-107  show_tool_settings with tool_settings.py:93-96, 123
SrcShowToolSettings ==
    /\ cfg_variant = "src"
    /\ cfg_pc = "running"
    /\ dialog = "none"
    /\ dialog' = "tool_settings"
    /\ selected_server' = 0
    /\ opened_on' = cfg_memory.servers
    /\ UNCHANGED <<old_api_key, edit_server, gemVars, taskVars, srcVars>>
    /\ UNCHANGED <<cfgVars, loopVars, appVars>>
    /\ UNCHANGED svcVars

\* tool_settings.py:155-162  handle_list_selection
HandleListSelection ==
    /\ dialog = "tool_settings"
    /\ \E i \in DOMAIN cfg_memory.servers : selected_server' = i
    /\ UNCHANGED <<dialog, old_api_key, edit_server, opened_on,
                   gemVars, taskVars, srcVars>>
    /\ UNCHANGED <<cfgVars, loopVars, appVars>>
    /\ UNCHANGED svcVars

\* tool_settings.py:168-201  "add-server"
DialogAddServer ==
    /\ dialog = "tool_settings"
    /\ Len(cfg_memory.servers) < MaxServers
    /\ \E name \in {"", "s1"}, command \in {"", "/bin/node"} :
         IF command # ""
         THEN /\ cfg_memory' = [cfg_memory EXCEPT !.servers =
                   Append(@, [name |-> IF name = ""
                                       THEN BaseName(command) \o " Server"
                                       ELSE name,
                              command |-> command, args |-> <<>>,
                              env |-> "{}", flag |-> TRUE])]
              /\ cfg_last' = "edit"
         ELSE UNCHANGED <<cfg_memory, cfg_last>>
    /\ UNCHANGED <<cfg_variant, cfg_file, cfg_pc, cfg_saved, cfg_file_saved>>
    /\ UNCHANGED <<dlgVars, gemVars, taskVars, srcVars>>
    /\ UNCHANGED <<loopVars, appVars>>
    /\ UNCHANGED svcVars

\* tool_settings.py:203-207  "remove-server"
DialogRemoveServer ==
    /\ dialog = "tool_settings"
    /\ selected_server # 0
    /\ IF selected_server <= Len(cfg_memory.servers)
       THEN /\ cfg_memory' = [cfg_memory EXCEPT !.servers =
                                 Remove(@, selected_server)]
            /\ cfg_last' = "edit"
            /\ selected_server' = 0
       ELSE UNCHANGED <<cfg_memory, cfg_last, selected_server>>
    /\ UNCHANGED <<cfg_variant, cfg_file, cfg_pc, cfg_saved, cfg_file_saved>>
    /\ UNCHANGED <<dialog, old_api_key, edit_server, opened_on,
                   gemVars, taskVars, srcVars>>
    /\ UNCHANGED <<loopVars, appVars>>
    /\ UNCHANGED svcVars

\* tool_settings.py:209-213  "toggle-server"
DialogToggleServer ==
    /\ dialog = "tool_settings"
    /\ selected_server # 0
    /\ IF selected_server <= Len(cfg_memory.servers)
       THEN /\ cfg_memory' = [cfg_memory EXCEPT
                                 !.servers[selected_server].flag = ~@]
            /\ cfg_last' = "edit"
       ELSE UNCHANGED <<cfg_memory, cfg_last>>
    /\ UNCHANGED <<cfg_variant, cfg_file, cfg_pc, cfg_saved, cfg_file_saved>>
    /\ UNCHANGED <<dlgVars, gemVars, taskVars, srcVars>>
    /\ UNCHANGED <<loopVars, appVars>>
    /\ UNCHANGED svcVars

\* tool_settings.py:215-218  "save": config.save(), dismiss(True)
DialogSave ==
    /\ dialog = "tool_settings"
    /\ cfg_file' = SrcSave(cfg_memory)
    /\ cfg_saved' = cfg_memory
    /\ cfg_file_saved' = TRUE
    /\ cfg_last' = "save"
    /\ dialog' = "none"
    /\ UNCHANGED <<cfg_variant, cfg_pc, cfg_memory>>
    /\ UNCHANGED <<selected_server, old_api_key, edit_server, opened_on,
                   gemVars, taskVars, srcVars>>
    /\ UNCHANGED <<loopVars, appVars>>
    /\ UNCHANGED svcVars

\* tool_settings.py:220-224  "cancel" and the escape key: dismiss(False)
DialogCancel ==
    /\ dialog = "tool_settings"
    /\ dialog' = "none"
    /\ UNCHANGED <<selected_server, old_api_key, edit_server, opened_on,
                   gemVars, taskVars, srcVars>>
    /\ UNCHANGED <<cfgVars, loopVars, appVars>>
    /\ UNCHANGED svcVars

(***************************************************************************)
(* gemini_terminal/ui/screens.py: SettingsScreen and ServerScreen, opened  *)
(* on the application's AppConfig and on its server list.                  *)
(***************************************************************************)
\* main.py:239-241  action_show_settings with screens.py:18-23
ActionShowSettings ==
    /\ cfg_variant = "gemini"
    /\ cfg_pc = "running"
    /\ dialog = "none"
    /\ dialog' = "settings"
    /\ old_api_key' = cfg_memory.api_key
    /\ UNCHANGED <<selected_server, edit_server, opened_on, gemVars, taskVars,
                   srcVars>>
    /\ UNCHANGED <<cfgVars, loopVars, appVars>>
    /\ UNCHANGED svcVars

\* screens.py:55-107  SettingsScreen.on_save.  The screen closes (by timer)
\* unless a changed key fails its verification.
SettingsOnSave ==
    /\ dialog = "settings"
    /\ \E api_key \in {"", "key"},
          model \in {DefaultModel("gemini"), "custom-model"},
          system_prompt \in {DefaultPrompt("gemini"), "custom prompt"},
          verified \in BOOLEAN :
         /\ cfg_memory' = [cfg_memory EXCEPT !.api_key = api_key,
                                             !.model = model,
                                             !.system_prompt = system_prompt]
         /\ dialog' = IF api_key # "" /\ api_key # old_api_key /\ ~verified
                      THEN "settings" ELSE "none"
    /\ cfg_file' = GeminiSaveConfig(cfg_memory')
    /\ cfg_saved' = cfg_memory'
    /\ cfg_file_saved' = TRUE
    /\ cfg_last' = "save"
    /\ gemini_client' = InitializedGemini(cfg_memory', gemini_client)
    /\ UNCHANGED <<cfg_variant, cfg_pc>>
    /\ UNCHANGED <<selected_server, old_api_key, edit_server, opened_on,
                   taskVars, srcVars>>
    /\ UNCHANGED <<loopVars, appVars>>
    /\ UNCHANGED svcVars

\* main.py:143-146, 243-245  action_add_server
ActionAddServer ==
    /\ cfg_variant = "gemini"
    /\ cfg_pc = "running"
    /\ dialog = "none"
    /\ dialog' = "server_add"
    /\ edit_server' = 0
    /\ opened_on' = cfg_memory.servers
    /\ UNCHANGED <<selected_server, old_api_key, gemVars, taskVars, srcVars>>
    /\ UNCHANGED <<cfgVars, loopVars, appVars>>
    /\ UNCHANGED svcVars

\* the first entry of the list, in list order, that has the name; 0 when
\* there is none (main.py:250-253, screens.py:185-188)
FirstNamed(servers, name) ==
    LET hits == {i \in DOMAIN servers : servers[i].name = name}
    IN  IF hits = {} THEN 0
        ELSE CHOOSE i \in hits : \A j \in hits : i <= j

\* main.py:247-253  handle_server_button_press: the edit screen is opened on
\* the first server that has the name written on the button
HandleServerButtonPress ==
    /\ cfg_variant = "gemini"
    /\ cfg_pc = "running"
    /\ dialog = "none"
    /\ \E button \in DOMAIN cfg_memory.servers :
          edit_server' =
             FirstNamed(cfg_memory.servers, cfg_memory.servers[button].name)
    /\ dialog' = "server_edit"
    /\ opened_on' = cfg_memory.servers
    /\ UNCHANGED <<selected_server, old_api_key, gemVars, taskVars, srcVars>>
    /\ UNCHANGED <<cfgVars, loopVars, appVars>>
    /\ UNCHANGED svcVars

\* screens.py:178-191: the list after on_save
ServersAfterSave(servers, edit, server) ==
    IF edit = 0
    THEN Append(servers, server)
    ELSE LET i == FirstNamed(servers, servers[edit].name)
         IN  [servers EXCEPT ![i] = server]

\* screens.py:200: the list after on_delete
ServersAfterDelete(servers, edit) ==
    SelectSeq(servers, LAMBDA sv : sv.name # servers[edit].name)

\* screens.py:157-195  ServerScreen.on_save, of the add screen and of the
\* edit screen
ServerOnSave ==
    /\ dialog \in {"server_add", "server_edit"}
    /\ dialog = "server_add" => Len(cfg_memory.servers) < MaxServers
    /\ \E name \in IF dialog = "server_add" THEN {"", "s1"}
                   ELSE {"", "s1", "s2"},
          command \in {"", "/bin/node"} :
         IF name = "" \/ command = ""
         THEN UNCHANGED <<cfg_memory, cfg_file, cfg_saved, cfg_file_saved,
                          cfg_last, dialog>>
         ELSE /\ cfg_memory' = [cfg_memory EXCEPT !.servers =
                   ServersAfterSave(@, edit_server,
                      [name |-> name, command |-> command,
                       args |-> <<>>, env |-> "{}",
                       flag |-> IF edit_server = 0 THEN FALSE
                                ELSE cfg_memory.servers[edit_server].flag])]
              /\ cfg_file' = GeminiSaveConfig(cfg_memory')
              /\ cfg_saved' = cfg_memory'
              /\ cfg_file_saved' = TRUE
              /\ cfg_last' = "save"
              /\ dialog' = "none"
    /\ UNCHANGED <<cfg_variant, cfg_pc>>
    /\ UNCHANGED <<selected_server, old_api_key, edit_server, opened_on,
                   gemVars, taskVars, srcVars>>
    /\ UNCHANGED <<loopVars, appVars>>
    /\ UNCHANGED svcVars

\* screens.py:197-204  ServerScreen.on_delete (the edit screen only has the
\* button)
ServerOnDelete ==
    /\ dialog = "server_edit"
    /\ cfg_memory' = [cfg_memory EXCEPT !.servers =
                         ServersAfterDelete(@, edit_server)]
    /\ cfg_file' = GeminiSaveConfig(cfg_memory')
    /\ cfg_saved' = cfg_memory'
    /\ cfg_file_saved' = TRUE
    /\ cfg_last' = "save"
    /\ dialog' = "none"
    /\ UNCHANGED <<cfg_variant, cfg_pc>>
    /\ UNCHANGED <<selected_server, old_api_key, edit_server, opened_on,
                   gemVars, taskVars, srcVars>>
    /\ UNCHANGED <<loopVars, appVars>>
    /\ UNCHANGED svcVars

\* screens.py:51-53, 153-155  on_cancel, and the escape key of both screens
ScreenOnCancel ==
    /\ dialog \in {"settings", "server_add", "server_edit"}
    /\ dialog' = "none"
    /\ UNCHANGED <<selected_server, old_api_key, edit_server, opened_on,
                   gemVars, taskVars, srcVars>>
    /\ UNCHANGED <<cfgVars, loopVars, appVars>>
    /\ UNCHANGED svcVars

(***************************************************************************)
(* gemini_terminal/main.py and src/app.py: a submitted prompt starts a     *)
(* worker of its own; nothing keeps a second prompt from being submitted   *)
(* while the first is running.                                             *)
(***************************************************************************)
\* the servers whose flag is set, in list order
Active(servers) == SelectSeq(servers, LAMBDA sv : sv.flag)

Names(servers) == [k \in DOMAIN servers |-> servers[k].name]

\* main.py:106-141  on_input_submitted
OnInputSubmitted ==
    /\ cfg_variant = "gemini"
    /\ cfg_pc = "running"
    /\ dialog = "none"
    /\ submitted < MaxPrompts
    /\ LET w == submitted + 1
           active_server_configs == Active(cfg_memory.servers)
       IN  /\ submitted' = w
           /\ prompt_epoch' = [prompt_epoch EXCEPT ![w] = new_chat_presses]
           /\ chat_view' = chat_view \cup {w}
           /\ IF gemini_client = NoClient
              THEN /\ widgets' = [widgets EXCEPT ![w] = "no_api_key"]
                   /\ UNCHANGED tasks
              ELSE /\ widgets' = [widgets EXCEPT ![w] = "placeholder"]
                   /\ tasks' = [tasks EXCEPT ![w] =
                        IF active_server_configs = <<>>
                        THEN NewTask("generate_response")
                        ELSE [NewTask("generate_mcp_response") EXCEPT
                                !.servers = Names(active_server_configs)]]
    /\ UNCHANGED <<prompt_queue, agent_worker_instance, mcp_config_file,
                   workers, new_chat_presses>>
    /\ UNCHANGED <<vendor_raised, model_calls>>
    /\ UNCHANGED <<cfgVars, loopVars, dlgVars, gemVars, srcVars>>
    /\ UNCHANGED svcVars

\* main.py:168-178 with gemini_client.py:58-79, 86-88: the stream is
\* requested; an exception becomes the text "Error: ..." of the widget
GenerateContentCall(p) ==
    /\ cfg_pc = "running"
    /\ tasks[p].kind = "generate_response"
    /\ tasks[p].at = "start"
    /\ model_calls' = [model_calls EXCEPT ![p] = @ + 1]
    /\ \/ /\ tasks' = [tasks EXCEPT ![p].at = "streaming"]
          /\ UNCHANGED <<widgets, vendor_raised>>
       \/ /\ tasks' = [tasks EXCEPT ![p].at = "done"]
          /\ widgets' = [widgets EXCEPT ![p] = "error"]
          /\ vendor_raised' = vendor_raised \cup {p}
    /\ UNCHANGED <<chat_view, prompt_queue, agent_worker_instance,
                   mcp_config_file, workers, submitted, prompt_epoch,
                   new_chat_presses>>
    /\ UNCHANGED <<cfgVars, loopVars, dlgVars, gemVars, srcVars>>
    /\ UNCHANGED svcVars

\* gemini_client.py:81-88: a chunk with text, the end of the stream, or an
\* exception in the middle of it
GenerateContentStream(p) ==
    /\ cfg_pc = "running"
    /\ tasks[p].kind = "generate_response"
    /\ tasks[p].at = "streaming"
    /\ \/ /\ widgets' = [widgets EXCEPT ![p] = "text"]
          /\ UNCHANGED <<tasks, vendor_raised>>
       \/ /\ tasks' = [tasks EXCEPT ![p].at = "done"]
          /\ UNCHANGED <<widgets, vendor_raised>>
       \/ /\ tasks' = [tasks EXCEPT ![p].at = "done"]
          /\ widgets' = [widgets EXCEPT ![p] = "error"]
          /\ vendor_raised' = vendor_raised \cup {p}
    /\ UNCHANGED model_calls
    /\ UNCHANGED <<chat_view, prompt_queue, agent_worker_instance,
                   mcp_config_file, workers, submitted, prompt_epoch,
                   new_chat_presses>>
    /\ UNCHANGED <<cfgVars, loopVars, dlgVars, gemVars, srcVars>>
    /\ UNCHANGED svcVars

\* src/app.py:321-327 with 264-269: the Send button mounts the widgets and
\* starts process_input
OnSendButtonPressed ==
    /\ cfg_variant = "src"
    /\ cfg_pc = "running"
    /\ dialog = "none"
    /\ submitted < MaxPrompts
    /\ \E mentions_tool \in BOOLEAN :
         LET w == submitted + 1
         IN  /\ submitted' = w
             /\ prompt_epoch' = [prompt_epoch EXCEPT ![w] = new_chat_presses]
             /\ chat_view' = chat_view \cup {w}
             /\ widgets' = [widgets EXCEPT ![w] = "placeholder"]
             /\ tasks' = [tasks EXCEPT ![w] =
                   [NewTask("process_input") EXCEPT
                       !.mentions_tool = mentions_tool]]
    /\ UNCHANGED <<prompt_queue, agent_worker_instance, mcp_config_file,
                   workers, new_chat_presses>>
    /\ UNCHANGED <<vendor_raised, model_calls>>
    /\ UNCHANGED <<cfgVars, loopVars, dlgVars, gemVars, srcVars>>
    /\ UNCHANGED svcVars

\* src/app.py:271-280  process_input: with tools it starts process_with_mcp
\* (a worker again) and returns, without it goes on in process_with_llm
ProcessInput(p) ==
    /\ cfg_pc = "running"
    /\ tasks[p].kind = "process_input"
    /\ tasks[p].at = "start"
    /\ LET need_tools == /\ mcp_connected = "True"
                         /\ mcp_tools # {}
                         /\ tasks[p].mentions_tool
       IN  tasks' = [tasks EXCEPT ![p] =
             IF need_tools
             THEN [@ EXCEPT !.kind = "process_with_mcp"]
             ELSE [@ EXCEPT !.at = "llm_call"]]
    /\ UNCHANGED <<vendor_raised, model_calls>>
    /\ UNCHANGED <<cfgVars, loopVars, appVars, dlgVars, gemVars, srcVars>>
    /\ UNCHANGED svcVars

\* src/app.py:286-298, 309-319  process_with_mcp up to the tool call: no
\* tools, no session or a failed call end the task with a text in the widget
ProcessWithMcp(p) ==
    /\ cfg_pc = "running"
    /\ tasks[p].kind = "process_with_mcp"
    /\ tasks[p].at = "start"
    /\ \/ /\ mcp_tools = {}
          /\ tasks' = [tasks EXCEPT ![p].at = "done"]
          /\ widgets' = [widgets EXCEPT ![p] = "no_tools"]
       \/ /\ mcp_tools # {}
          /\ session = 0
          /\ tasks' = [tasks EXCEPT ![p].at = "done"]
          /\ widgets' = [widgets EXCEPT ![p] = "tool_error"]
       \/ /\ mcp_tools # {}
          /\ session # 0
          /\ \/ /\ tasks' = [tasks EXCEPT ![p].at = "llm_call"]
                /\ UNCHANGED widgets
             \/ /\ tasks' = [tasks EXCEPT ![p].at = "done"]
                /\ widgets' = [widgets EXCEPT ![p] = "tool_error"]
    /\ UNCHANGED <<vendor_raised, model_calls>>
    /\ UNCHANGED <<chat_view, prompt_queue, agent_worker_instance,
                   mcp_config_file, workers, submitted, prompt_epoch,
                   new_chat_presses>>
    /\ UNCHANGED <<cfgVars, loopVars, dlgVars, gemVars, srcVars>>
    /\ UNCHANGED svcVars

\* An exception of the model call: process_with_mcp catches it and shows
\* "Error: ..." (src/app.py:309-310); process_with_llm does not
\* (src/app.py:282-284), the worker fails and, being created with the
\* default exit_on_error, takes the application down.
VendorRaised(p) ==
    /\ tasks' = [tasks EXCEPT ![p].at = "done"]
    /\ vendor_raised' = vendor_raised \cup {p}
    /\ IF tasks[p].kind = "process_with_mcp"
       THEN /\ widgets' = [widgets EXCEPT ![p] = "error"]
            /\ UNCHANGED cfg_pc
       ELSE /\ cfg_pc' = "crashed"
            /\ UNCHANGED widgets

\* src/app.py:283 and 304-307: self.model.prompt(...) is called
SrcModelCall(p) ==
    /\ cfg_pc = "running"
    /\ tasks[p].kind \in {"process_input", "process_with_mcp"}
    /\ tasks[p].at = "llm_call"
    /\ model_calls' = [model_calls EXCEPT ![p] = @ + 1]
    /\ \/ /\ tasks' = [tasks EXCEPT ![p].at = "streaming"]
          /\ UNCHANGED <<widgets, vendor_raised, cfg_pc>>
       \/ VendorRaised(p)
    /\ UNCHANGED <<cfg_variant, cfg_file, cfg_memory, cfg_last, cfg_saved,
                   cfg_file_saved>>
    /\ UNCHANGED <<chat_view, prompt_queue, agent_worker_instance,
                   mcp_config_file, workers, submitted, prompt_epoch,
                   new_chat_presses>>
    /\ UNCHANGED <<loopVars, dlgVars, gemVars, srcVars>>
    /\ UNCHANGED svcVars

\* src/app.py:283-284 and 304-308: the chunks of the response
SrcModelStream(p) ==
    /\ cfg_pc = "running"
    /\ tasks[p].kind \in {"process_input", "process_with_mcp"}
    /\ tasks[p].at = "streaming"
    /\ \/ /\ widgets' = [widgets EXCEPT ![p] = "text"]
          /\ UNCHANGED <<tasks, vendor_raised, cfg_pc>>
       \/ /\ tasks' = [tasks EXCEPT ![p].at = "done"]
          /\ UNCHANGED <<widgets, vendor_raised, cfg_pc>>
       \/ VendorRaised(p)
    /\ UNCHANGED model_calls
    /\ UNCHANGED <<cfg_variant, cfg_file, cfg_memory, cfg_last, cfg_saved,
                   cfg_file_saved>>
    /\ UNCHANGED <<chat_view, prompt_queue, agent_worker_instance,
                   mcp_config_file, workers, submitted, prompt_epoch,
                   new_chat_presses>>
    /\ UNCHANGED <<loopVars, dlgVars, gemVars, srcVars>>
    /\ UNCHANGED svcVars


(***************************************************************************)
(* gemini_terminal/main.py: generate_mcp_response, the task of a prompt    *)
(* submitted while servers are active.                                     *)
(***************************************************************************)
ErrorConnectingTo(name) ==
    CASE name = "s1" -> "Error connecting to s1"
      [] name = "s2" -> "Error connecting to s2"
      [] OTHER -> "Error connecting to server"

\* main.py:196-215 with mcp_client.py:7-25: the next server of the list is
\* connected; a failure is shown in the widget and ends the loop
GenerateMcpResponseConnect(p) ==
    /\ cfg_pc = "running"
    /\ tasks[p].kind = "generate_mcp_response"
    /\ tasks[p].at = "start"
    /\ LET n == Len(tasks[p].connect_calls) + 1
           server_config == tasks[p].servers[n]
       IN  /\ n <= Len(tasks[p].servers)
           /\ \/ /\ tasks' = [tasks EXCEPT
                      ![p].connect_calls = Append(@, server_config),
                      ![p].sessions =
                          Append(@, [server |-> server_config, closes |-> 0]),
                      ![p].at = IF n = Len(tasks[p].servers)
                                THEN "generate" ELSE "start"]
                 /\ widgets' = [widgets EXCEPT ![p] = "connecting"]
              \/ /\ tasks' = [tasks EXCEPT
                      ![p].connect_calls = Append(@, server_config),
                      ![p].failed = server_config,
                      ![p].at = "finally"]
                 /\ widgets' = [widgets EXCEPT
                      ![p] = ErrorConnectingTo(server_config)]
    /\ UNCHANGED <<vendor_raised, model_calls>>
    /\ UNCHANGED <<chat_view, prompt_queue, agent_worker_instance,
                   mcp_config_file, workers, submitted, prompt_epoch,
                   new_chat_presses>>
    /\ UNCHANGED <<cfgVars, loopVars, dlgVars, gemVars, srcVars>>
    /\ UNCHANGED svcVars

\* main.py:221-232  generate_mcp_content is awaited; what it shows is its
\* text or its own error text, an exception out of it becomes "Error: ..."
GenerateMcpResponseGenerate(p) ==
    /\ cfg_pc = "running"
    /\ tasks[p].kind = "generate_mcp_response"
    /\ tasks[p].at = "generate"
    /\ model_calls' = [model_calls EXCEPT ![p] = @ + 1]
    /\ tasks' = [tasks EXCEPT ![p].at = "finally"]
    /\ \/ /\ widgets' = [widgets EXCEPT ![p] = "text"]
          /\ UNCHANGED vendor_raised
       \/ /\ widgets' = [widgets EXCEPT ![p] = "error"]
          /\ vendor_raised' = vendor_raised \cup {p}
    /\ UNCHANGED <<chat_view, prompt_queue, agent_worker_instance,
                   mcp_config_file, workers, submitted, prompt_epoch,
                   new_chat_presses>>
    /\ UNCHANGED <<cfgVars, loopVars, dlgVars, gemVars, srcVars>>
    /\ UNCHANGED svcVars

\* main.py:234-237  finally: session.close() on each of active_sessions in
\* turn.  The session is a ClientSession built outside its context manager
\* on a transport that connect_to_server has already left: the call either
\* returns or raises; raised in the finally block it ends the worker, which
\* (created with the default exit_on_error) takes the application down.
GenerateMcpResponseFinally(p) ==
    /\ cfg_pc = "running"
    /\ tasks[p].kind = "generate_mcp_response"
    /\ tasks[p].at = "finally"
    /\ LET open == {i \in DOMAIN tasks[p].sessions :
                       tasks[p].sessions[i].closes = 0}
       IN  IF open = {}
           THEN /\ tasks' = [tasks EXCEPT ![p].at = "done"]
                /\ UNCHANGED cfg_pc
           ELSE LET i == CHOOSE j \in open : \A m \in open : j <= m
                IN  \/ /\ tasks' = [tasks EXCEPT ![p].sessions[i].closes = 1]
                       /\ UNCHANGED cfg_pc
                    \/ /\ tasks' = [tasks EXCEPT ![p].at = "failed"]
                       /\ cfg_pc' = "crashed"
    /\ UNCHANGED <<cfg_variant, cfg_file, cfg_memory, cfg_last, cfg_saved,
                   cfg_file_saved>>
    /\ UNCHANGED <<vendor_raised, model_calls>>
    /\ UNCHANGED <<loopVars, appVars, dlgVars, gemVars, srcVars>>
    /\ UNCHANGED svcVars

(***************************************************************************)
(* src/app.py: the tool-server connection.  A press on a server's toggle   *)
(* starts a connect worker or disconnects; the workers are threads.        *)
(***************************************************************************)
\* src/app.py:136-147  disconnect_mcp_server, called in the UI thread
DisconnectMcpServer ==
    IF session = 0
    THEN UNCHANGED <<session, mcp_connected, mcp_tools, closers>>
    ELSE /\ mcp_connected' = "None"
         /\ session' = 0
         /\ mcp_tools' = {}
         /\ closers' = closers + 1

\* src/app.py:124-134  on_button_pressed of a ServerToggle
OnButtonPressed ==
    /\ cfg_variant = "src"
    /\ cfg_pc = "running"
    /\ dialog = "none"
    /\ \E t \in DOMAIN toggles :
         LET server_index == toggles[t].server_index
         IN  /\ server_index <= Len(cfg_memory.servers)
             /\ IF toggles[t].is_connected
                THEN /\ toggles' = [toggles EXCEPT ![t].is_connected = FALSE]
                     /\ DisconnectMcpServer
                     /\ UNCHANGED connects
                ELSE /\ \E k \in ConnectIds :
                          /\ connects[k] = NoConnect
                          /\ \A j \in 1..(k - 1) : connects[j] # NoConnect
                          /\ connects' = [connects EXCEPT ![k] =
                                [at |-> "start", server |-> server_index]]
                     /\ UNCHANGED <<session, mcp_connected, mcp_tools,
                                    closers, toggles>>
    /\ UNCHANGED <<exit_stack, stacks>>
    /\ UNCHANGED <<cfgVars, loopVars, appVars, dlgVars, gemVars, taskVars>>
    /\ UNCHANGED svcVars

\* src/app.py:149-165  _close_session_in_thread: the stack is taken off the
\* application and closed in a new event loop of another thread than the
\* one it was entered in; a failure of aclose() is notified as a warning.
CloseSessionInThread ==
    /\ cfg_pc = "running"
    /\ closers > 0
    /\ closers' = closers - 1
    /\ IF exit_stack = 0
       THEN UNCHANGED <<exit_stack, stacks>>
       ELSE /\ exit_stack' = 0
            /\ \/ stacks' = [stacks EXCEPT ![exit_stack] = "closed"]
               \/ UNCHANGED stacks
    /\ UNCHANGED <<session, mcp_tools, mcp_connected, connects, toggles>>
    /\ UNCHANGED <<cfgVars, loopVars, appVars, dlgVars, gemVars, taskVars>>
    /\ UNCHANGED svcVars

\* src/app.py:261-262  the except branch of _connect_mcp_async: the stack
\* the application holds at that moment is closed and dropped; session,
\* mcp_tools and mcp_connected are not touched
ConnectFailed(k) ==
    /\ connects' = [connects EXCEPT ![k].at = "failed"]
    /\ exit_stack' = 0
    /\ UNCHANGED <<session, mcp_tools, mcp_connected, toggles>>

\* src/app.py:225-232  a new AsyncExitStack replaces the one held, the
\* transport and the ClientSession are entered on it
ConnectEnter(k) ==
    /\ cfg_pc = "running"
    /\ connects[k].at = "start"
    /\ \/ /\ exit_stack' = k
          /\ stacks' = [stacks EXCEPT ![k] = "open"]
          /\ session' = k
          /\ connects' = [connects EXCEPT ![k].at = "entered"]
          /\ UNCHANGED <<mcp_tools, mcp_connected, toggles>>
       \/ /\ ConnectFailed(k)
          /\ stacks' = [stacks EXCEPT ![k] = "closed"]
    /\ UNCHANGED closers
    /\ UNCHANGED <<cfgVars, loopVars, appVars, dlgVars, gemVars, taskVars>>
    /\ UNCHANGED svcVars

\* src/app.py:234-252  list_tools, then the tools, the flag and the toggle
ConnectListTools(k) ==
    /\ cfg_pc = "running"
    /\ connects[k].at = "entered"
    /\ \/ /\ \E tools \in {{}, {"search"}} : mcp_tools' = tools
          /\ mcp_connected' = "True"
          /\ toggles' = [t \in DOMAIN toggles |->
                IF /\ toggles[t].server_index = connects[k].server
                   /\ \A u \in 1..(t - 1) :
                         toggles[u].server_index # connects[k].server
                THEN [toggles[t] EXCEPT !.is_connected = TRUE]
                ELSE toggles[t]]
          /\ connects' = [connects EXCEPT ![k].at = "connected"]
          /\ UNCHANGED <<session, exit_stack, stacks>>
       \/ /\ ConnectFailed(k)
          /\ stacks' = IF exit_stack = 0 THEN stacks
                       ELSE [stacks EXCEPT ![exit_stack] = "closed"]
    /\ UNCHANGED closers
    /\ UNCHANGED <<cfgVars, loopVars, appVars, dlgVars, gemVars, taskVars>>
    /\ UNCHANGED svcVars

\* The prompt tasks and the connections are started on files with up to
\* MaxTaskServers servers.
TaskServer(i, flag) ==
    [name |-> IF i = 1 THEN "s1" ELSE "s2", command |-> "python",
     args |-> <<>>, env |-> "{}", flag |-> flag]

TaskServerLists ==
    UNION {{[i \in 1..n |-> TaskServer(i, f[i])] : f \in [1..n -> BOOLEAN]} :
             n \in 0..MaxTaskServers}

TaskStartFiles(v) ==
    {FileOf("missing")}
    \cup {HandWritten(v, MakeConfig(IF v = "gemini" THEN "key" ELSE "n/a",
                                    DefaultPrompt(v), DefaultModel(v), l)) :
             l \in TaskServerLists}

InitTasks ==
    /\ cfg_variant \in {"gemini", "src"}
    /\ cfg_file \in TaskStartFiles(cfg_variant)
    /\ cfg_pc = "off"
    /\ cfg_memory = Defaults(cfg_variant)
    /\ cfg_last = "none"
    /\ cfg_saved = Defaults(cfg_variant)
    /\ cfg_file_saved = FALSE
    /\ AppIdle

NextTasks ==
    \/ GeminiAppInit
    \/ SrcAppInit
    \/ OnInputSubmitted
    \/ \E p \in PromptIds : GenerateContentCall(p)
    \/ \E p \in PromptIds : GenerateContentStream(p)
    \/ \E p \in PromptIds : GenerateMcpResponseConnect(p)
    \/ \E p \in PromptIds : GenerateMcpResponseGenerate(p)
    \/ \E p \in PromptIds : GenerateMcpResponseFinally(p)
    \/ OnSendButtonPressed
    \/ \E p \in PromptIds : ProcessInput(p)
    \/ \E p \in PromptIds : ProcessWithMcp(p)
    \/ \E p \in PromptIds : SrcModelCall(p)
    \/ \E p \in PromptIds : SrcModelStream(p)
    \/ OnButtonPressed
    \/ CloseSessionInThread
    \/ \E k \in ConnectIds : ConnectEnter(k)
    \/ \E k \in ConnectIds : ConnectListTools(k)

NextApp ==
    \/ LlmOnMount
    \/ OnInput
    \/ NewChatPressed
    \/ ReloadPressed
    \/ SettingsSubmitted
    \/ \E w \in WorkerIds : WorkerInitialize(w)
    \/ \E w \in WorkerIds : WorkerGet(w)
    \/ \E w \in WorkerIds : WorkerFinishPrompt(w)
    \/ GeminiAppInit
    \/ GeminiOnServerToggle
    \/ GeminiOnNewConversation
    \/ SrcAppInit
    \/ SrcOnSystemPromptChanged
    \/ SrcOnNewConversation
    \/ SrcShowToolSettings
    \/ HandleListSelection
    \/ DialogAddServer
    \/ DialogRemoveServer
    \/ DialogToggleServer
    \/ DialogSave
    \/ DialogCancel
    \/ ActionShowSettings
    \/ SettingsOnSave
    \/ ActionAddServer
    \/ ServerOnSave
    \/ ScreenOnCancel

(***************************************************************************)
(* llm_terminal/agent_service.py: AgentService, called by one caller (the  *)
(* worker's event loop) one method at a time.  A call that awaits inside   *)
(* the lock is a sequence of steps; service_call.at tells where it is:     *)
(* "create_agent" and "enter" hold the lock, "stream" is the generator of  *)
(* process_prompt_stream being consumed (lock free), "returned" is no call *)
(* under way.  service_call.before is the service as the call found it.    *)
(***************************************************************************)
ModelIdentifiers == {"openai:o4-mini", "custom-model"}
SystemPrompts == {"", "custom prompt"}
Prompts == {"hello", "more"}

Call(op, at, outcome, prompt) ==
    [op |-> op, at |-> at, outcome |-> outcome, prompt |-> prompt,
     before |-> agent_service]

NoCallUnderWay == service_call.at = "returned"

\* agent_service.py:85-96  _cleanup_resources (a failure of aclose() is
\* logged and changes nothing of what follows)
CleanupResourcesKeepingAgent(svc) ==
    [svc EXCEPT !.mcp_stack = "None", !.is_initialized = FALSE]

CleanupResources(svc) ==
    [svc EXCEPT !.agent = "None", !.mcp_stack = "None",
                !.is_initialized = FALSE]

\* agent_service.py:98-107  shutdown
Shutdown(svc) ==
    IF ~svc.is_initialized /\ svc.mcp_stack = "None"
    THEN svc
    ELSE CleanupResources(svc)

\* agent_service.py:48-53: what initialize sets before its attempt
ResetForInitializeKeepingHistory(svc, model_identifier, system_prompt) ==
    [svc EXCEPT !.model_identifier = model_identifier,
                !.system_prompt = system_prompt,
                !.is_initialized = FALSE,
                !.mcp_stack = "None",
                !.agent = "None"]

ResetForInitialize(svc, model_identifier, system_prompt) ==
    [svc EXCEPT !.model_identifier = model_identifier,
                !.system_prompt = system_prompt,
                !.is_initialized = FALSE,
                !.message_history = <<>>,
                !.mcp_stack = "None",
                !.agent = "None"]

\* agent_service.py:42-53  initialize up to its try block, on the service
\* svc, as part of the call op
InitializeBegin(op, svc, model_identifier, system_prompt) ==
    IF svc.is_initialized
    THEN /\ agent_service' = svc
         /\ service_call' = Call(op, "returned", "already_initialized", "-")
    ELSE /\ agent_service' =
              ResetForInitialize(svc, model_identifier, system_prompt)
         /\ service_call' = Call(op, "create_agent", "-", "-")

\* agent_service.py:40-53  initialize is called
CallInitialize ==
    /\ NoCallUnderWay
    /\ \E model_identifier \in ModelIdentifiers,
          system_prompt \in SystemPrompts :
         InitializeBegin("initialize", agent_service, model_identifier,
                         system_prompt)
    /\ UNCHANGED restVars

\* agent_service.py:109-113  reinitialize is called: shutdown, then
\* initialize
CallReinitialize ==
    /\ NoCallUnderWay
    /\ \E model_identifier \in ModelIdentifiers,
          system_prompt \in SystemPrompts :
         InitializeBegin("reinitialize", Shutdown(agent_service),
                         model_identifier, system_prompt)
    /\ UNCHANGED restVars

\* agent_service.py:55-67, 76-83: the server configurations are loaded and
\* the Agent is created, or an exception leads to _cleanup_resources
InitializeCreateAgent ==
    /\ service_call.at = "create_agent"
    /\ \/ /\ agent_service' =
               [agent_service EXCEPT
                   !.agent = agent_service.model_identifier]
          /\ service_call' = [service_call EXCEPT !.at = "enter"]
       \/ /\ agent_service' = CleanupResources(agent_service)
          /\ service_call' = [service_call EXCEPT !.at = "returned",
                                                  !.outcome = "failed"]
    /\ UNCHANGED restVars

\* agent_service.py:69-83: the exit stack is created and the
\* run_mcp_servers context entered, or an exception leads to
\* _cleanup_resources
InitializeEnter ==
    /\ service_call.at = "enter"
    /\ \/ /\ agent_service' = [agent_service EXCEPT
                                  !.mcp_stack = "entered",
                                  !.is_initialized = TRUE]
          /\ service_call' = [service_call EXCEPT !.at = "returned",
                                                  !.outcome = "initialized"]
       \/ /\ agent_service' =
               CleanupResources([agent_service EXCEPT !.mcp_stack = "empty"])
          /\ service_call' = [service_call EXCEPT !.at = "returned",
                                                  !.outcome = "failed"]
    /\ UNCHANGED restVars

\* agent_service.py:98-107  shutdown is called
CallShutdown ==
    /\ NoCallUnderWay
    /\ service_call' =
         Call("shutdown", "returned",
              IF ~agent_service.is_initialized
                 /\ agent_service.mcp_stack = "None"
              THEN "not_running" ELSE "shut_down", "-")
    /\ agent_service' = Shutdown(agent_service)
    /\ UNCHANGED restVars

\* agent_service.py:115-120  clear_history is called
CallClearHistory ==
    /\ NoCallUnderWay
    /\ agent_service' = [agent_service EXCEPT !.message_history = <<>>]
    /\ service_call' = Call("clear_history", "returned", "cleared", "-")
    /\ UNCHANGED restVars

\* agent_service.py:122-139, 178  process_prompt_stream is called: None, or
\* the generator
CallProcessPromptStream ==
    /\ NoCallUnderWay
    /\ Len(agent_service.message_history) < MaxHistory
    /\ \E prompt \in Prompts :
         service_call' =
            IF agent_service.agent = "None" \/ ~agent_service.is_initialized
            THEN Call("process_prompt_stream", "returned", "None", prompt)
            ELSE Call("process_prompt_stream", "stream", "-", prompt)
    /\ UNCHANGED agent_service
    /\ UNCHANGED restVars

\* agent_service.py:152  run_result.all_messages(): the history handed to
\* the run and the messages of the run
AllMessages(history, prompt) == Append(history, prompt)

\* agent_service.py:145-176: how the consumption of the generator ends: the
\* stream is exhausted and the history replaced, or an exception is logged
AfterStreamStoringPartial(svc, prompt, exhausted) ==
    [svc EXCEPT !.message_history = AllMessages(@, prompt)]

AfterStream(svc, prompt, exhausted) ==
    IF exhausted
    THEN [svc EXCEPT !.message_history = AllMessages(@, prompt)]
    ELSE svc

\* agent_service.py:146-147: an event is yielded
StreamEvent ==
    /\ service_call.at = "stream"
    /\ service_call.outcome = "-"
    /\ service_call' = [service_call EXCEPT !.outcome = "events"]
    /\ UNCHANGED agent_service
    /\ UNCHANGED restVars

\* agent_service.py:148-176: the generator ends
StreamEnd ==
    /\ service_call.at = "stream"
    /\ \E exhausted \in BOOLEAN :
         /\ agent_service' =
               AfterStream(agent_service, service_call.prompt, exhausted)
         /\ service_call' =
               [service_call EXCEPT
                  !.at = "returned",
                  !.outcome = IF exhausted THEN "exhausted" ELSE "raised"]
    /\ UNCHANGED restVars

NextAgent ==
    \/ CallInitialize
    \/ CallReinitialize
    \/ InitializeCreateAgent
    \/ InitializeEnter
    \/ CallShutdown
    \/ CallClearHistory
    \/ CallProcessPromptStream
    \/ StreamEvent
    \/ StreamEnd

(***************************************************************************)
(* Specifications.                                                         *)
(***************************************************************************)
LoopIdle ==
    /\ client = FALSE
    /\ mcp_sessions = <<>>
    /\ fc_request = <<>>
    /\ pc = "done"
    /\ contents = <<>>
    /\ response = NoResponse
    /\ response_text = [text |-> FALSE, notice |-> FALSE]
    /\ displayed = NothingDisplayed
    /\ turn_count = 0
    /\ fc_index = 0
    /\ tool_response_parts = <<>>
    /\ model_invocations = <<>>
    /\ tool_calls = <<>>

InitSpecLoop == InitLoop /\ CfgIdle /\ AppIdle /\ ExtIdle

SpecLoop == InitSpecLoop /\ [][NextLoop]_vars

InitSpecConfig == InitConfig /\ LoopIdle /\ AppIdle /\ ExtIdle

SpecConfig == InitSpecConfig /\ [][NextConfig]_vars

InitSpecApp == InitApp /\ LoopIdle /\ ExtIdle

SpecApp == InitSpecApp /\ [][NextApp]_vars

InitSpecTasks == InitTasks /\ LoopIdle /\ ExtIdle

SpecTasks == InitSpecTasks /\ [][NextTasks]_vars

\* llm_terminal alone, with its worker threads scheduled fairly: a worker
\* thread that can take a step (finish initialize, return from
\* prompt_queue.get() on a non-empty queue, reach the end of a stream)
\* eventually takes it.
InitSpecWorker == InitSpecApp /\ cfg_variant = "llm"

NextWorker ==
    \/ LlmOnMount
    \/ OnInput
    \/ NewChatPressed
    \/ ReloadPressed
    \/ SettingsSubmitted
    \/ \E w \in WorkerIds : WorkerInitialize(w)
    \/ \E w \in WorkerIds : WorkerGet(w)
    \/ \E w \in WorkerIds : WorkerFinishPrompt(w)

WorkerFairness ==
    \A w \in WorkerIds :
       /\ WF_vars(WorkerInitialize(w))
       /\ WF_vars(WorkerGet(w))
       /\ WF_vars(WorkerFinishPrompt(w))

SpecWorker == InitSpecWorker /\ [][NextWorker]_vars /\ WorkerFairness

\* The ServerScreen is opened on a gemini application whose list holds up to
\* MaxScreenServers servers, two of which may have the same name.
ScreenServerLists ==
    UNION {[1..n -> [name : {"s1", "s2"}, command : {"python"},
                     args : {<<>>}, env : {"{}"}, flag : BOOLEAN]] :
             n \in 0..MaxScreenServers}

InitScreen ==
    /\ cfg_variant = "gemini"
    /\ cfg_pc = "running"
    /\ \E l \in ScreenServerLists :
         cfg_memory = MakeConfig("key", DefaultPrompt("gemini"),
                                 DefaultModel("gemini"), l)
    /\ cfg_file = GeminiSaveConfig(cfg_memory)
    /\ cfg_saved = cfg_memory
    /\ cfg_file_saved = TRUE
    /\ cfg_last = "save"
    /\ gemini_client = InitializedGemini(cfg_memory, NoClient)

NextScreen ==
    \/ ActionAddServer
    \/ HandleServerButtonPress
    \/ ServerOnSave
    \/ ServerOnDelete
    \/ ScreenOnCancel

InitSpecScreen ==
    InitScreen /\ LoopIdle /\ AppIdle /\ DlgIdle /\ TaskIdle /\ SrcIdle
    /\ SvcIdle

SpecScreen == InitSpecScreen /\ [][NextScreen]_vars

InitSpecAgent ==
    SvcIdle /\ LoopIdle /\ CfgIdle /\ AppIdle /\ DlgIdle /\ GemIdle /\ TaskIdle
    /\ SrcIdle

SpecAgent == InitSpecAgent /\ [][NextAgent]_vars

(***************************************************************************)
(* Properties of the tool-call orchestration loop (under SpecLoop).        *)
(***************************************************************************)
ToolTurns(c) == Cardinality({i \in DOMAIN c : c[i].what = "tool_results"})

RequestsTools(inv) == inv.outcome = "returned" /\ inv.function_calls # <<>>
RequestsNothing(inv) == inv.outcome = "returned" /\ inv.function_calls = <<>>

NoticeShown == displayed.notice \/ response_text.notice

\* The loop has ended or can take a step: it never hangs.
LoopProgress == pc = "done" \/ ENABLED NextLoop

\* C1: when the first model turn returns zero tool-call requests, the run
\* makes exactly one model invocation, calls no tool, appends no tool-result
\* turn, shows no truncation notice, and runs on to its end.
C1_NoToolCallsOneInvocation ==
    (Len(model_invocations) >= 1 /\ RequestsNothing(model_invocations[1]))
    => /\ Len(model_invocations) = 1
       /\ tool_calls = <<>>
       /\ turn_count = 0
       /\ ToolTurns(contents) = 0
       /\ ~NoticeShown
       /\ pc \in {"while", "final", "done"}
       /\ LoopProgress

C1_Witness ==
    /\ pc = "done"
    /\ Len(model_invocations) = 1
    /\ RequestsNothing(model_invocations[1])
    /\ response.candidates
    /\ Len(contents) = 4

\* k model turns that request tools followed by one that does not
ToolTurnsThenStop(k) ==
    /\ Len(model_invocations) >= k + 1
    /\ \A i \in 1..k : RequestsTools(model_invocations[i])
    /\ RequestsNothing(model_invocations[k + 1])

\* C2: for 1 <= k <= 5, when exactly the first k model turns request tools
\* and turn k+1 does not, the run performs exactly k tool turns and exactly
\* k+1 model invocations and ends without the truncation notice.
C2_KToolTurnsThenNormalEnd ==
    \A k \in 1..max_tool_turns :
        ToolTurnsThenStop(k)
        => /\ Len(model_invocations) = k + 1
           /\ turn_count = k
           /\ ToolTurns(contents) = k
           /\ ~NoticeShown
           /\ pc \in {"while", "final", "done"}
           /\ LoopProgress

C2_Witness ==
    /\ pc = "done"
    /\ ToolTurnsThenStop(max_tool_turns)
    /\ response.candidates
    /\ displayed.kind = "text"

\* The model turn after the 5th tool turn was received and requests tools.
SixthTurnRequestsTools ==
    /\ Len(model_invocations) = max_tool_turns + 1
    /\ RequestsTools(model_invocations[max_tool_turns + 1])

\* C3: there are never more than 5 tool turns; when the model turn after the
\* 5th tool turn still requests tools the loop ends without executing them
\* and with the truncation notice appended to the displayed text; the notice
\* is shown in that case only.
C3_AtMostFiveToolTurns ==
    /\ turn_count <= max_tool_turns
    /\ ToolTurns(contents) <= max_tool_turns
    /\ Len(model_invocations) <= max_tool_turns + 1
    /\ \A i \in DOMAIN tool_calls : tool_calls[i].turn <= max_tool_turns
    /\ SixthTurnRequestsTools
       => /\ pc \in {"while", "final", "done"}
          /\ ToolTurns(contents) = max_tool_turns
          /\ contents[Len(contents)].what = "response"
          /\ LoopProgress
          /\ pc = "done" => /\ displayed.kind = "text"
                            /\ displayed.notice
                            /\ displayed.text = response_text.text
                            /\ response_text.notice
    /\ NoticeShown => pc = "done" /\ SixthTurnRequestsTools

C3_Witness ==
    /\ pc = "done"
    /\ displayed.notice
    /\ turn_count = max_tool_turns
    /\ SixthTurnRequestsTools

\* The function calls of the model turn being processed fail to dispatch:
\* unknown to every session, or known to a session whose call fails.
DispatchFails(tool_name) ==
    \/ \A i \in DOMAIN mcp_sessions : tool_name \notin mcp_sessions[i].tools
    \/ \E i \in DOMAIN mcp_sessions :
          /\ tool_name \in mcp_sessions[i].tools
          /\ \A j \in 1..(i - 1) : tool_name \notin mcp_sessions[j].tools
          /\ mcp_sessions[i].behaviour \in {"isError", "raises"}

\* C4: a tool-dispatch error never aborts the run.  A request no session
\* knows, and a request whose call raises or returns isError, gets an error
\* result; the remaining requests of the turn are still processed (one
\* result per request, in order), and the next model invocation follows.
C4_DispatchErrorsDoNotAbort ==
    /\ pc = "for"
       => /\ Len(tool_response_parts) = fc_index - 1
          /\ \A i \in DOMAIN tool_response_parts :
                /\ tool_response_parts[i].name = response.function_calls[i]
                /\ DispatchFails(response.function_calls[i])
                   <=> tool_response_parts[i].kind = "error"
    /\ \A i \in DOMAIN contents :
          contents[i].what = "tool_results"
          => /\ Len(contents[i].parts) = Len(contents[i - 1].parts)
             /\ \A j \in DOMAIN contents[i].parts :
                   /\ contents[i].parts[j].name = contents[i - 1].parts[j]
                   /\ DispatchFails(contents[i - 1].parts[j])
                      <=> contents[i].parts[j].kind = "error"
    /\ pc \in {"while", "final"}
       => Len(model_invocations) = ToolTurns(contents) + 1
    /\ displayed.kind = "error"
       => \/ model_invocations[Len(model_invocations)].outcome = "raised"
          \/ ~response.candidates
    /\ LoopProgress

C4_Witness ==
    /\ pc = "while"
    /\ Len(model_invocations) = 2
    /\ Len(contents) = 6
    /\ Len(contents[5].parts) = 2
    /\ contents[5].parts[1].msg = "not_found"
    /\ contents[5].parts[2].msg = "execution_failed"

\* C5: when several sessions expose the requested tool, the call goes to the
\* one that comes first in the session list and to no other, also when that
\* session's call fails: each request makes at most one call.
C5_FirstSessionWins ==
    /\ \A c \in DOMAIN tool_calls :
          /\ tool_calls[c].name \in mcp_sessions[tool_calls[c].session].tools
          /\ \A j \in 1..(tool_calls[c].session - 1) :
                tool_calls[c].name \notin mcp_sessions[j].tools
    /\ pc = "for"
       => Cardinality({c \in DOMAIN tool_calls :
                          tool_calls[c].turn = turn_count})
          = Cardinality({i \in 1..(fc_index - 1) :
                  \E j \in DOMAIN mcp_sessions :
                     response.function_calls[i] \in mcp_sessions[j].tools})

C5_Witness ==
    /\ Len(mcp_sessions) = 2
    /\ "a" \in mcp_sessions[1].tools
    /\ "a" \in mcp_sessions[2].tools
    /\ mcp_sessions[1].behaviour = "raises"
    /\ mcp_sessions[2].behaviour = "ok"
    /\ \E c \in DOMAIN tool_calls :
          tool_calls[c].name = "a" /\ tool_calls[c].session = 1
    /\ pc = "next_call"
    /\ tool_response_parts[1].msg = "execution_failed"

(***************************************************************************)
(* Properties of configuration persistence (under SpecConfig).             *)
(***************************************************************************)
LoadedFrom(kinds) == cfg_last = "load" /\ cfg_file.kind \in kinds

\* C8: loading from a path where no file exists does not fail and returns
\* the default of every field: the default system prompt, the default model
\* identifier and an empty server list.
C8_MissingFileLoadsDefaults ==
    LoadedFrom({"missing"})
    => /\ cfg_pc = "running"
       /\ cfg_memory.system_prompt = DefaultPrompt(cfg_variant)
       /\ cfg_memory.model = DefaultModel(cfg_variant)
       /\ cfg_memory.servers = <<>>
       /\ cfg_variant = "gemini" => cfg_memory.api_key = ""

C8_Witness ==
    /\ LoadedFrom({"missing"})
    /\ cfg_variant = "src"
    /\ cfg_pc = "running"

\* C9: save followed by load is a round trip: the configuration loaded from
\* the file a save wrote equals the configuration that was saved.
C9_SaveLoadRoundTrip ==
    (cfg_last = "load" /\ cfg_file_saved)
    => /\ cfg_pc = "running"
       /\ cfg_memory = cfg_saved

\* C10: load never raises: on a missing or corrupt file (unparseable, empty
\* or of the wrong shape) it returns the default configuration.
C10_LoadNeverRaises ==
    LoadedFrom({"missing", "unparseable", "empty", "list"})
    => /\ cfg_pc = "running"
       /\ cfg_memory = Defaults(cfg_variant)


(***************************************************************************)
(* Claims about the new-conversation action (SpecApp).                     *)
(***************************************************************************)
\* worker w is processing a prompt that was submitted after a New Chat press
ProcessingLaterPrompt(w) ==
    /\ workers[w].at = "busy"
    /\ prompt_epoch[workers[w].item.widget] > 0

\* C6: after the user presses New Chat, the agent's message_history becomes
\* empty before any prompt submitted after the press is processed: whenever
\* a worker processes a prompt, the message_history it runs the prompt with
\* is empty or was set to [] after every New Chat press that preceded the
\* prompt's submission.
C6_HistoryEmptiedBeforeLaterPrompt ==
    \A w \in WorkerIds :
        ProcessingLaterPrompt(w)
        => \/ workers[w].message_history = <<>>
           \/ workers[w].emptied_at >= prompt_epoch[workers[w].item.widget]

\* a step that belongs to the new-conversation action: the press of the
\* button, or a worker taking the clear-history signal from the queue
NewConversationStep ==
    \/ new_chat_presses' # new_chat_presses
    \/ /\ prompt_queue # <<>>
       /\ Head(prompt_queue) = ClearItem
       /\ prompt_queue' = Tail(prompt_queue)

\* the settings the agents were started with
AgentSettings ==
    [w \in WorkerIds |->
        <<workers[w].model_id, workers[w].sys_prompt>>]

\* C7: the new-conversation action writes neither the settings/config file
\* nor the MCP configuration file, and changes no in-memory setting (model
\* identifier, system prompt, server list, API key), in all three
\* applications.
C7_NewConversationKeepsConfig ==
    [][NewConversationStep
       => /\ cfg_file' = cfg_file
          /\ mcp_config_file' = mcp_config_file
          /\ cfg_memory' = cfg_memory
          /\ AgentSettings' = AgentSettings]_vars

\* New Chat was pressed in an application whose settings file does not
\* exist (any write would create it), or in one with settings changed and
\* saved in this run
C7_Witness ==
    /\ new_chat_presses > 0
    /\ cfg_pc = "running"
    /\ cfg_file.kind = "missing" \/ cfg_last = "save"


(***************************************************************************)
(* Claims about files with missing or unknown keys (SpecConfig).           *)
(***************************************************************************)
\* the server a file entry describes: each field present as written, each
\* absent field at its default
ServerAsWritten(v, sd) ==
    [name |-> ServerGet(sd, "name", DefaultServerName),
     command |-> ServerGet(sd, "command", DefaultServerCommand),
     args |-> ServerGet(sd, "args", <<>>),
     env |-> ServerGet(sd, "env", "{}"),
     flag |-> ServerGet(sd, "flag", DefaultFlag(v))]

\* the configuration a mapping describes: each known key present as written,
\* each missing key at its default, every other key ignored
ConfigAsWritten(v, d) ==
    MakeConfig(
      IF v = "gemini" /\ "api_key" \in d.has
      THEN d.api_key ELSE Defaults(v).api_key,
      IF "system_prompt" \in d.has
      THEN d.system_prompt ELSE DefaultPrompt(v),
      IF v # "src" /\ "model" \in d.has THEN d.model ELSE DefaultModel(v),
      IF v # "llm" /\ "servers" \in d.has
      THEN [k \in DOMAIN d.servers |-> ServerAsWritten(v, d.servers[k])]
      ELSE NoServers)

\* the file is a plain mapping in the current format: no node that only the
\* dump of an object produces, no top-level command of the old format
PlainMapping(file) ==
    /\ file.kind = "map"
    /\ "command" \notin file.doc.has
    /\ \A k \in DOMAIN file.doc.servers : ~file.doc.servers[k].tagged

\* C11: a load of a mapping gives every missing key its default, ignores
\* every unknown key and keeps the value of every known key that is present:
\* the loaded configuration is the one the mapping describes.
C11_MissingDefaultUnknownIgnored ==
    (cfg_last = "load" /\ PlainMapping(cfg_file))
    => /\ cfg_pc = "running"
       /\ cfg_memory = ConfigAsWritten(cfg_variant, cfg_file.doc)

(***************************************************************************)
(* Claims about persistence (SpecApp).                                     *)
(***************************************************************************)
\* the in-memory configuration was changed by a UI action of this run
ConfigChanged == cfg_last \in {"edit", "save"}

\* C12: the configuration is persisted on every change: once a UI action has
\* changed the in-memory configuration and no dialog is open (whichever way
\* it was closed), the config file is what a save of the in-memory
\* configuration writes.
C12_PersistedOnEveryChange ==
    (cfg_pc = "running" /\ dialog = "none" /\ ConfigChanged)
    => cfg_file = SaveConfig(cfg_variant, cfg_memory)

(***************************************************************************)
(* Claims about vendor errors (SpecApp).                                   *)
(***************************************************************************)
\* C13: an exception raised by a model call, before the stream starts or in
\* the middle of it, ends as an error text in the response widget of its
\* prompt; the call is made once and the application goes on running.
C13_VendorErrorShown ==
    \A p \in vendor_raised :
        /\ widgets[p] = "error"
        /\ model_calls[p] = 1
        /\ cfg_pc = "running"

\* C16: within one model turn the tool results are appended to the history
\* as a single turn, placed right after the model turn that requested them,
\* holding exactly one result per request in request order; and the model is
\* invoked again only after that turn has been appended.
C16_ToolResultsOneTurnInOrder ==
    /\ \A i \in DOMAIN contents :
         contents[i].what = "tool_results"
         => /\ i > 1
            /\ contents[i - 1].what = "response"
            /\ Len(contents[i].parts) = Len(contents[i - 1].parts)
            /\ \A m \in DOMAIN contents[i].parts :
                  contents[i].parts[m].name = contents[i - 1].parts[m]
            /\ i < Len(contents) => contents[i + 1].what = "response"
    /\ \A i \in DOMAIN contents :
         (contents[i].what = "response" /\ i < Len(contents))
         => /\ contents[i].parts # <<>>
            /\ contents[i + 1].what = "tool_results"
    /\ Len(model_invocations) <= ToolTurns(contents) + 1
    /\ pc = "next_call"
       => /\ contents[Len(contents)].what = "tool_results"
          /\ Len(tool_response_parts) = Len(response.function_calls)
          /\ Len(tool_calls) <= Len(tool_response_parts) * turn_count

C16_Witness ==
    /\ pc = "done"
    /\ \E i \in DOMAIN contents :
         /\ contents[i].what = "tool_results"
         /\ Len(contents[i].parts) = 2
         /\ contents[i].parts[1].name # contents[i].parts[2].name
         /\ i < Len(contents)
         /\ contents[i + 1].what = "response"

\* C19: the stop sentinel travels through the queue like any item.  The
\* queue is first-in first-out: an item is put at its tail and taken from
\* its head, so whatever was put before the sentinel is taken before it;
\* the worker that takes the sentinel leaves its loop with that step, and a
\* worker that has left its loop takes and processes nothing more.
QueuePut ==
    /\ Len(prompt_queue') > Len(prompt_queue)
    /\ SubSeq(prompt_queue', 1, Len(prompt_queue)) = prompt_queue

QueueGet ==
    /\ prompt_queue # <<>>
    /\ prompt_queue' = Tail(prompt_queue)

C19_StopSentinelInQueueOrder ==
    [][/\ prompt_queue' # prompt_queue => (QueuePut \/ QueueGet)
       /\ (QueueGet /\ Head(prompt_queue) = StopItem)
          => \E w \in WorkerIds : /\ workers[w].at = "get"
                                  /\ workers'[w].at = "exited"
       /\ \A w \in WorkerIds :
            workers[w].at = "exited"
               => /\ workers'[w] = workers[w]
                  /\ QueueGet => \E v \in WorkerIds \ {w} :
                                    workers[v].at = "get"]_vars

\* a worker that has processed a prompt and then left on the sentinel,
\* while an item put after the sentinel is still in the queue
C19_Witness ==
    \E w \in WorkerIds :
        /\ workers[w].at = "exited"
        /\ workers[w].is_initialized
        /\ workers[w].message_history # <<>>
        /\ prompt_queue # <<>>

(***************************************************************************)
(* Properties of the prompt tasks and of the tool-server connection        *)
(* (under SpecTasks).                                                      *)
(***************************************************************************)
\* C14: a connection attempt that fails leaves the connection state as it
\* was before the attempt.  Stated for the first attempt of a run, before
\* which there is no session, no exit stack, no tool and the flag is False.
C14_FailedConnectLeavesStateUnchanged ==
    \A k \in ConnectIds :
        (/\ connects[k].at = "failed"
         /\ \A j \in ConnectIds \ {k} : connects[j] = NoConnect)
        => /\ session = 0
           /\ exit_stack = 0
           /\ mcp_tools = {}
           /\ mcp_connected = "False"

\* C15: an opened session context is kept only while connected: once the
\* application holds no session and no connect or close worker is still
\* under way, every exit stack that was opened has been closed.
ConnectionAtRest ==
    /\ closers = 0
    /\ \A k \in ConnectIds : connects[k].at \notin {"start", "entered"}

C15_ContextsClosedOnDisconnect ==
    (cfg_pc = "running" /\ session = 0 /\ ConnectionAtRest)
    => \A k \in ConnectIds : stacks[k] # "open"

\* C17: at most one prompt is in flight at a time in a conversation: no two
\* prompt tasks are under way together.
InFlight ==
    {p \in PromptIds : /\ tasks[p].kind # "none"
                       /\ tasks[p].at \notin {"done", "failed"}}

C17_OnePromptInFlight == Cardinality(InFlight) <= 1

\* C18: the live tool-session state (the session handle, the tool list and
\* the connected flag) is written only by a worker: every step that changes
\* one of them is a step of a connect worker.
ConnectWorkerStep == \E k \in ConnectIds : connects'[k] # connects[k]

SessionStateWritten ==
    \/ session' # session
    \/ mcp_tools' # mcp_tools
    \/ mcp_connected' # mcp_connected

C18_SessionStateSingleWriter ==
    [][SessionStateWritten => ConnectWorkerStep]_vars

\* C20: when a connection of generate_mcp_response fails, the response
\* widget shows the error naming that server, the model is not invoked, no
\* server is connected a second time, and by the time the task has ended
\* every session opened for the prompt has been closed exactly once.
ConnectionFailed(p) ==
    tasks[p].kind = "generate_mcp_response" /\ tasks[p].failed # ""

C20_ConnectionErrorShownNotRetried ==
    \A p \in PromptIds :
        ConnectionFailed(p)
        => /\ widgets[p] = ErrorConnectingTo(tasks[p].failed)
           /\ model_calls[p] = 0
           /\ \A i, j \in DOMAIN tasks[p].connect_calls :
                 tasks[p].connect_calls[i] = tasks[p].connect_calls[j]
                 => i = j
           /\ tasks[p].at \in {"finally", "done"}
           /\ tasks[p].at = "done"
              => \A i \in DOMAIN tasks[p].sessions :
                    tasks[p].sessions[i].closes = 1

(***************************************************************************)
(* Properties of AgentService (under SpecAgent).                           *)
(***************************************************************************)
CallReturned(op) == service_call.op = op /\ service_call.at = "returned"

\* C21: reinitialize shuts the service down and then initializes it with
\* the given model and system prompt: its initialize never finds the service
\* still initialized, and from the reset on, and so after the return, the
\* message history is empty, whatever the state before and whether or not
\* the new initialization succeeds; a successful one leaves the service
\* initialized with an agent of the given model.
C21_ReinitializeEmptiesHistory ==
    service_call.op = "reinitialize"
    => /\ agent_service.message_history = <<>>
       /\ service_call.outcome # "already_initialized"
       /\ service_call.outcome = "initialized"
          => /\ agent_service.is_initialized
             /\ agent_service.agent = agent_service.model_identifier
             /\ agent_service.mcp_stack = "entered"

C21_Witness ==
    /\ CallReturned("reinitialize")
    /\ service_call.outcome = "failed"
    /\ service_call.before.is_initialized
    /\ service_call.before.message_history # <<>>

\* C22: process_prompt_stream returns None exactly when the agent is not
\* initialized, and then changes nothing; otherwise the history keeps the
\* value it had before the prompt while the stream is consumed and when the
\* stream raises, and is the run's full message list once the stream has
\* been exhausted; nothing but the history changes.
C22_HistoryReplacedAfterStreamOnly ==
    service_call.op = "process_prompt_stream"
    => /\ service_call.outcome = "None"
          <=> (service_call.before.agent = "None"
               \/ ~service_call.before.is_initialized)
       /\ service_call.outcome # "exhausted"
          => agent_service = service_call.before
       /\ service_call.outcome = "exhausted"
          => agent_service =
               [service_call.before EXCEPT !.message_history =
                   AllMessages(@, service_call.prompt)]

C22_Witness ==
    /\ CallReturned("process_prompt_stream")
    /\ service_call.outcome = "raised"
    /\ service_call.before.message_history # <<>>

\* C27: whenever the lock is free, is_initialized holds only with the agent
\* and the exit stack set; after a failed initialize and after shutdown
\* is_initialized is false and agent and stack are None; shutdown leaves the
\* message history as it was; initialize on an initialized service changes
\* nothing.
LockFree == service_call.at \in {"returned", "stream"}

C27_LifecycleInvariant ==
    /\ (LockFree /\ agent_service.is_initialized)
       => /\ agent_service.agent # "None"
          /\ agent_service.mcp_stack # "None"
    /\ (service_call.at = "returned"
        /\ (service_call.outcome = "failed" \/ service_call.op = "shutdown"))
       => /\ ~agent_service.is_initialized
          /\ agent_service.agent = "None"
          /\ agent_service.mcp_stack = "None"
    /\ CallReturned("shutdown")
       => agent_service.message_history =
            service_call.before.message_history
    /\ service_call.outcome = "already_initialized"
       => agent_service = service_call.before

C27_Witness ==
    /\ CallReturned("shutdown")
    /\ service_call.outcome = "shut_down"
    /\ service_call.before.is_initialized
    /\ service_call.before.message_history # <<>>

\* ---------------------------------------------------------------------------
\* Properties of the ServerScreen (under SpecScreen)
\* ---------------------------------------------------------------------------

\* the list without its i-th entry
WithoutEntry(servers, i) ==
    [j \in 1..(Len(servers) - 1) |->
        IF j < i THEN servers[j] ELSE servers[j + 1]]

\* C23: a Save or a Delete of the edit screen changes the one entry the
\* screen was opened on and no other: after Save the list has the same
\* length and differs at most at that entry, after Delete it is the list
\* without that entry.
C23_OnlyEditedEntryChanges ==
    [][(dialog = "server_edit"
        /\ cfg_memory'.servers # cfg_memory.servers)
       => \/ /\ Len(cfg_memory'.servers) = Len(cfg_memory.servers)
             /\ \A i \in DOMAIN cfg_memory.servers :
                   i # edit_server
                   => cfg_memory'.servers[i] = cfg_memory.servers[i]
          \/ cfg_memory'.servers =
                WithoutEntry(cfg_memory.servers, edit_server)]_vars

\* C23 for Save alone: the edit screen's Save keeps the length of the list
\* and every entry but the one the screen was opened on.
C23_SaveChangesEditedEntryOnly ==
    [][(dialog = "server_edit"
        /\ Len(cfg_memory'.servers) = Len(cfg_memory.servers))
       => \A i \in DOMAIN cfg_memory.servers :
             i # edit_server
             => cfg_memory'.servers[i] = cfg_memory.servers[i]]_vars

\* ---------------------------------------------------------------------------
\* Properties of the ToolSettingsDialog's Cancel (under SpecApp)
\* ---------------------------------------------------------------------------

\* C29: when the ToolSettingsDialog is closed with Cancel or Escape, the
\* application's server list is the list the dialog was opened on, and each
\* button of the toggle bar holds the index of a server of that list.
C29_CancelDiscardsEdits ==
    [][DialogCancel
       => /\ cfg_memory'.servers = opened_on
          /\ \A k \in DOMAIN toggles' :
                toggles'[k].server_index \in DOMAIN cfg_memory'.servers]_vars

\* ---------------------------------------------------------------------------
\* Properties of the agent worker's restart (under SpecApp)
\* ---------------------------------------------------------------------------

\* C24: a stop sentinel is taken only by the worker it was put for.  The
\* application puts a sentinel only for the worker it is replacing, so the
\* worker that leaves its prompt loop on a sentinel is never the
\* application's current worker, which has not been stopped.
C24_SentinelStopsOnlyItsWorker ==
    [][\A w \in WorkerIds :
          (workers[w].at = "get" /\ workers'[w].at = "exited")
          => w # agent_worker_instance]_vars

C25_AcceptedPromptAnswered ==
    \A p \in PromptIds :
       (widgets[p] = "placeholder") ~> (widgets[p] # "placeholder")

\* ---------------------------------------------------------------------------
\* Properties of the server toggles of src/app.py (under SpecTasks)
\* ---------------------------------------------------------------------------

\* C26: with no connection or disconnection under way, a toggle is shown
\* connected exactly when the application is connected (mcp_connected) and
\* its current session is the one of that toggle's server, and every
\* context still open is the one the application holds in exit_stack.
C26_OneSessionShownByToggle ==
    ((\A k \in ConnectIds : connects[k].at \notin {"start", "entered"})
     /\ closers = 0)
    => /\ \A t \in DOMAIN toggles :
             toggles[t].is_connected
             <=> (session # 0
                  /\ mcp_connected = "True"
                  /\ connects[session].server = toggles[t].server_index)
       /\ \A k \in ConnectIds : stacks[k] = "open" => exit_stack = k

\* ---------------------------------------------------------------------------
\* The shape of the history of generate_mcp_content (under SpecLoop)
\* ---------------------------------------------------------------------------

\* the body ran to its end and no exception was raised
EndedWithoutException ==
    pc = "done" /\ client /\ displayed.kind # "error"

\* C28: the history is only ever appended to; each tool-result turn comes
\* right after a model turn that requested tools, never first or after
\* another tool-result turn; and when the body ends without an exception
\* the history is the 3 initial entries, then one entry per model
\* invocation and one per tool turn, each tool turn followed by a model
\* turn: 4 + 2 * tool turns entries.
C28_HistoryShape ==
    [][/\ contents' # contents
          => /\ Len(contents') > Len(contents)
             /\ SubSeq(contents', 1, Len(contents)) = contents
       /\ \A i \in DOMAIN contents' :
             contents'[i].what = "tool_results"
             => /\ i > 4
                /\ contents'[i - 1].what = "response"
                /\ contents'[i - 1].parts # <<>>
       /\ EndedWithoutException'
          => /\ SubSeq(contents', 1, 3) = InitialContents
             /\ Len(contents') =
                   3 + Len(model_invocations') + ToolTurns(contents')
             /\ Len(contents') = 4 + 2 * ToolTurns(contents')
             /\ \A i \in DOMAIN contents' :
                   contents'[i].what = "tool_results"
                   => /\ i < Len(contents')
                      /\ contents'[i + 1].what = "response"]_vars

\* a run with two tool turns ended without an exception
C28_Witness ==
    /\ EndedWithoutException
    /\ ToolTurns(contents) = 2
    /\ Len(contents) = 8

=============================================================================
